---- MODULE Spec2Model ----
(***************************************************************************)
(* regional-cli: the Lambda deployment orchestrator (pkg/lambda/deployer)  *)
(* and the OIDC provisioner handler (pkg/lambda/functions/oidc-provisioner)*)
(* as state machines over the remote AWS account they reconcile.           *)
(*                                                                         *)
(* Strings that the code inspects (issuer URLs, function and log-group     *)
(* names) are sequences of one-character strings; opaque identifiers are   *)
(* plain strings.  A nil pointer is the empty sequence <<>>, a non-nil     *)
(* pointer the one-element sequence holding the pointee.  A nil error is   *)
(* the empty string.                                                       *)
(***************************************************************************)
EXTENDS Integers, Sequences, FiniteSets, TLC

\* ---------------------------------------------------------------- bounds
MaxRuns == 2          \* Deploy calls on one Deployer
MaxBody == 1          \* archive contents are numbered 0..MaxBody

\* ------------------------------------------------------ program constants
maxPackageSize    == 52428800
RetentionInDays   == 90
defaultMemorySize == 128
defaultTimeout    == 60

\* ----------------------------------------------------------------- strings
STR_awsLambda == <<"/", "a", "w", "s", "/", "l", "a", "m", "b", "d", "a", "/">>

IsPrefix(p, s) == Len(p) <= Len(s) /\ SubSeq(s, 1, Len(p)) = p

\* strings.TrimSuffix(s, suffix) for a one-character suffix
TrimSuffix(s, c) ==
    IF Len(s) > 0 /\ s[Len(s)] = c THEN SubSeq(s, 1, Len(s) - 1) ELSE s

\* ------------------------------------------------------- package builder
\* An archive is its byte length and a number telling apart different byte
\* strings of that length.
Archive(n, b) == [size |-> n, body |-> b]
NoArchive == Archive(0, 0)
Archives == { Archive(2048, b) : b \in 0..MaxBody } \cup
            { Archive(maxPackageSize, 0), Archive(maxPackageSize + 1, 0) }

HexDigit(d) ==
    <<"0","1","2","3","4","5","6","7","8","9","a","b","c","d","e","f">>[d + 1]

RECURSIVE HexN(_, _)
HexN(n, digits) ==
    IF digits = 0 THEN <<>>
    ELSE HexN(n \div 16, digits - 1) \o <<HexDigit(n % 16)>>

\* fmt.Sprintf("%x", hash): lowercase hex, two digits per byte
Sprintf_x(h) == HexN(h, 4)

\* sha256.Sum256 over the archive bytes, as a two-byte digest that is
\* injective on Archives
Sum256(z) == (z.size * 31 + z.body * 7 + 11) % 65536

\* Build refusing an archive of exactly the maximum size
Build_inclusive(compile, z) ==
    IF compile # "ok"
      THEN [zipData |-> NoArchive, hash |-> <<>>,
            err |-> "failed to compile binary"]
    ELSE IF z.size >= maxPackageSize
      THEN [zipData |-> NoArchive, hash |-> <<>>,
            err |-> "package size exceeds maximum"]
    ELSE [zipData |-> z, hash |-> Sprintf_x(Sum256(z)), err |-> ""]

\* Build reporting the digest of an archive other than the one it returns
Build_stale(compile, z) ==
    IF compile # "ok"
      THEN [zipData |-> NoArchive, hash |-> <<>>,
            err |-> "failed to compile binary"]
    ELSE IF z.size > maxPackageSize
      THEN [zipData |-> NoArchive, hash |-> <<>>,
            err |-> "package size exceeds maximum"]
    ELSE [zipData |-> z, hash |-> Sprintf_x(Sum256(Archive(z.size, 0))), err |-> ""]

\* PackageBuilder.Build: compile is the outcome of compileBinary, z the
\* archive createZipPackage produces.  Returns (zipData, hashStr, err).
Build(compile, z) ==
    IF compile # "ok"
      THEN [zipData |-> NoArchive, hash |-> <<>>,
            err |-> "failed to compile binary"]
    ELSE IF z.size > maxPackageSize
      THEN [zipData |-> NoArchive, hash |-> <<>>,
            err |-> "package size exceeds maximum"]
    ELSE [zipData |-> z, hash |-> Sprintf_x(Sum256(z)), err |-> ""]

\* ---------------------------------------------------------- configuration
FunctionName      == <<"f", "n">>
SiblingName       == <<"f", "n", "2">>
ExecutionRoleName == "rosa-oidc-provisioner-execution"
RoleArn           == "arn:aws:iam::role/exec"
FunctionArns      == {"arn:aws:lambda:1:function:fn", "arn:aws:lambda:2:function:fn"}
TagMaps           == { {}, {<<"rosa:managed", "true">>} }

DeploymentConfig ==
    [FunctionName      : {FunctionName},
     ExecutionRoleName : {ExecutionRoleName},
     CLMServiceRoleARN : {"", "arn:aws:iam::role/clm"},
     SourceAccountID   : {"", "123456789012"},
     Runtime           : {"provided.al2023"},
     MemorySize        : {defaultMemorySize},
     Timeout           : {defaultTimeout},
     Architecture      : {"x86_64"},
     Tags              : TagMaps]

\* fmt.Sprintf("/aws/lambda/%s", d.config.FunctionName)
LogGroupNameOf(fn) == STR_awsLambda \o fn

VARIABLES
    \* the remote account
    role,        \* the IAM role named ExecutionRoleName
    function,    \* the Lambda function named FunctionName
    logGroups,   \* log-group name -> [retention, tags]; DOMAIN = existing groups
    \* the Deployer and its current Deploy call
    config, pc, runs,
    roleARN, zipData, checksum, functionARN, status, logGroupName,
    result, err, calls, warnings,
    snap,        \* what steps 1-4 resolved, recorded when step 4 completes
    prev         \* outcome of the previous Deploy call on this Deployer

remoteVars == <<role, function, logGroups>>
localVars  == <<roleARN, zipData, checksum, functionARN, status, logGroupName>>
vars == <<role, function, logGroups, config, pc, runs,
          roleARN, zipData, checksum, functionARN, status, logGroupName,
          result, err, calls, warnings, snap, prev>>

VARIABLES
    providers,   \* the account's OIDC providers, in listing order
    hpc, handles,
    req, before, issuerURL, normalizedIssuerURL, scan, providerARN,
    resp, herr, hcalls, hwarnings,
    hhist        \* one record per finished Handle call that passed validation

hvars == <<providers, hpc, handles, req, before, issuerURL, normalizedIssuerURL, scan,
           providerARN, resp, herr, hcalls, hwarnings, hhist>>

VARIABLES
    \* the policy generator called on its own
    generator,   \* the generator function called last, "" before any call
    gargs,       \* the arguments a GenerateLambdaResourcePolicy call is given
    gout         \* what the last call returned

gvars == <<generator, gargs, gout>>

VARIABLES
    \* the package builder called on its own
    sourceDir,   \* pb.sourceDir
    tmp,         \* the directories that exist under os.TempDir()
    bpc, builds,
    bop,         \* the method called: "Build" or "createZipPackage"
    tmpDir,      \* the directory this Build made, "" when it made none
    binary,      \* the file at binaryPath
    zipBuf,      \* the archive createZipPackage wrote
    ret          \* what the call returned

bvars == <<sourceDir, tmp, bpc, builds, bop, tmpDir, binary, zipBuf, ret>>

VARIABLES
    \* the credentials validator called on its own
    region,      \* v.region
    vpc,
    identity,    \* the output of the GetCallerIdentity call
    idErr,       \* the error of the GetCallerIdentity call, <<>> for nil
    validation,  \* the ValidationResult that Validate returned
    verr         \* the error that Validate returned, <<>> for nil

avars == <<region, vpc, identity, idErr, validation, verr>>

\* the variables of the functions that are called on their own
libVars == <<gvars, bvars, avars>>

\* by: who created the role, Deploy or another actor in the account
NoRole     == [exists |-> FALSE, arn |-> "", trust |-> FALSE, inline |-> FALSE,
               by |-> ""]
NoFunction == [exists |-> FALSE, arn |-> "", code |-> NoArchive, role |-> "",
               handler |-> "", perms |-> {}, tags |-> {}]
NoSnap     == [set |-> FALSE, functionARN |-> "", roleARN |-> "", status |-> "",
               zipData |-> NoArchive]
NoPrev     == [ran |-> FALSE, result |-> <<>>, err |-> "", clean |-> TRUE]

Call(op, out, arg) == [op |-> op, out |-> out, arg |-> arg]
NoArg == [none |-> TRUE]

\* outcomes that the account state alone explains: no injected failure
\* ("err") and no concurrent actor ("raced": the account answers that the
\* resource exists although the lookup just before did not find it)
CleanOutcomes == {"ok", "notfound", "conflict", "exists"}
Has(cs, op, out) == \E i \in 1..Len(cs) : cs[i].op = op /\ cs[i].out = out
Find(cs, op) == cs[CHOOSE i \in 1..Len(cs) : cs[i].op = op]
Clean(cs) == \A i \in 1..Len(cs) : cs[i].out \in CleanOutcomes
Ops(cs) == { cs[i].op : i \in 1..Len(cs) }

InitRole ==
    {NoRole, [exists |-> TRUE, arn |-> RoleArn, trust |-> TRUE, inline |-> TRUE,
              by |-> "Deploy"]}
\* the permission an earlier Deploy with another invoker role and another
\* source account left on the function
StalePermission ==
    [StatementId |-> "AllowCLMInvoke",
     Action      |-> "lambda:InvokeFunction",
     Principal   |-> <<"arn:aws:iam::", "210987654321", ":root">>,
     SourceArn   |-> "arn:aws:iam::role/clm-old"]

InitFunction ==
    {NoFunction} \cup
    { [exists |-> TRUE, arn |-> a, code |-> Archive(2048, 0), role |-> RoleArn,
       handler |-> "bootstrap", perms |-> {}, tags |-> {}] : a \in FunctionArns }
    \cup
    { [exists |-> TRUE, arn |-> "arn:aws:lambda:1:function:fn",
       code |-> Archive(2048, 0), role |-> RoleArn, handler |-> "bootstrap",
       perms |-> {StalePermission}, tags |-> {}] }
NewLogGroup == [retention |-> 0, tags |-> {}]
InitLogGroups ==
    { [n \in S |-> NewLogGroup] :
        S \in SUBSET {LogGroupNameOf(FunctionName), LogGroupNameOf(SiblingName)} }

\* NewDeployer(lambdaClient, iamClient, cwLogsClient, config)
DeployerInit ==
    /\ role \in InitRole
    /\ function \in InitFunction
    /\ logGroups \in InitLogGroups
    /\ config \in DeploymentConfig
    /\ pc = "idle"
    /\ runs = 0
    /\ roleARN = "" /\ zipData = NoArchive /\ checksum = <<>>
    /\ functionARN = "" /\ status = "" /\ logGroupName = <<>>
    /\ result = <<>> /\ err = "" /\ calls = <<>> /\ warnings = {}
    /\ snap = NoSnap
    /\ prev = NoPrev

\* ------------------------------------------------------------ control flow
Goto(p) == pc' = p /\ UNCHANGED <<result, err, prev>>

\* a fatal step that returns what the run has resolved so far with the error
Abort_partial(msg) ==
    /\ pc' = "done"
    /\ result' = << [FunctionARN |-> functionARN, FunctionName |-> config.FunctionName,
                     ExecutionRole |-> roleARN, LogGroupName |-> <<>>,
                     Status |-> status, PackageSize |-> zipData.size,
                     PackageChecksum |-> checksum] >>
    /\ err' = msg
    /\ UNCHANGED prev

\* return nil, fmt.Errorf(...)
Abort(msg) == /\ pc' = "done" /\ result' = <<>> /\ err' = msg
              /\ UNCHANGED prev

\* steps 5-7 returning their error instead of printing it
Warn_fatal(failed, msg, next) ==
    /\ warnings' = warnings
    /\ IF failed THEN Abort(msg) ELSE Goto(next)

\* Deploy, steps 5-7: a failure is printed as a warning and Deploy goes on
Warn(failed, msg, next) ==
    /\ warnings' = IF failed THEN warnings \cup {msg} ELSE warnings
    /\ Goto(next)

\* Deploy is entered
DeployStart ==
    /\ pc \in {"idle", "done"}
    /\ runs < MaxRuns
    /\ runs' = runs + 1
    /\ prev' = IF pc = "done"
                 THEN [ran |-> TRUE, result |-> result, err |-> err,
                       clean |-> Clean(calls)]
                 ELSE prev
    /\ pc' = "GetRole"
    /\ roleARN' = "" /\ zipData' = NoArchive /\ checksum' = <<>>
    /\ functionARN' = "" /\ status' = "" /\ logGroupName' = <<>>
    /\ result' = <<>> /\ err' = "" /\ calls' = <<>> /\ warnings' = {}
    /\ snap' = NoSnap
    /\ UNCHANGED <<libVars, hvars, role, function, logGroups, config>>

\* ------------------------------------------------- step 1: execution role
\* a role lookup that takes every error for not-found
RoleLookup_lenient(out) ==
    CASE out = "ok" -> "reuse"
      [] OTHER      -> "create"

\* ensureExecutionRole: what the outcome of GetRole leads to
RoleLookup(out) ==
    CASE out = "ok"       -> "reuse"
      [] out = "notfound" -> "create"
      [] OTHER            -> "fatal"

\* ensureExecutionRole: iamClient.GetRole
GetRole ==
    /\ pc = "GetRole"
    /\ \E out \in {IF role.exists THEN "ok" ELSE "notfound", "err"} :
         /\ calls' = Append(calls, Call("GetRole", out,
                                        [RoleName |-> config.ExecutionRoleName]))
         /\ roleARN' = IF RoleLookup(out) = "reuse" THEN role.arn ELSE roleARN
         /\ CASE RoleLookup(out) = "reuse"  -> Goto("Build")
              [] RoleLookup(out) = "create" -> Goto("CreateRole")
              [] OTHER -> Abort("failed to ensure execution role: failed to check if role exists")
    /\ UNCHANGED <<libVars, hvars, role, function, logGroups, config, runs, zipData, checksum,
                   functionARN, status, logGroupName, warnings, snap>>

\* GenerateLambdaExecutionRoleTrustPolicy
TrustPolicy ==
    [Version |-> "2012-10-17",
     Statement |-> << [Effect |-> "Allow",
                       Principal |-> [Service |-> "lambda.amazonaws.com"],
                       Action |-> "sts:AssumeRole"] >>]

\* GenerateOIDCProvisionerPermissionsPolicy
PermissionsPolicy ==
    [Version |-> "2012-10-17",
     Statement |-> << [Effect |-> "Allow",
                       Action |-> <<"iam:CreateOpenIDConnectProvider",
                                    "iam:GetOpenIDConnectProvider",
                                    "iam:ListOpenIDConnectProviders",
                                    "iam:TagOpenIDConnectProvider">>,
                       Resource |-> "*"],
                      [Effect |-> "Allow",
                       Action |-> <<"logs:CreateLogGroup",
                                    "logs:CreateLogStream",
                                    "logs:PutLogEvents">>,
                       Resource |-> "arn:aws:logs:*:*:*"] >>]

\* a role step that creates the role and leaves out the inline policy
CreateRole_skipAttach ==
    /\ pc = "CreateRole"
    /\ \E out \in (IF role.exists THEN {"exists"} ELSE {"ok", "raced"}) \cup {"err"} :
         /\ calls' = Append(calls, Call("CreateRole", out,
                        [RoleName |-> config.ExecutionRoleName,
                         AssumeRolePolicyDocument |-> TrustPolicy]))
         /\ role' = CASE out = "ok" ->
                           [exists |-> TRUE, arn |-> RoleArn, trust |-> TRUE,
                            inline |-> FALSE, by |-> "Deploy"]
                      [] out = "raced" ->
                           [exists |-> TRUE, arn |-> RoleArn, trust |-> TRUE,
                            inline |-> FALSE, by |-> "other"]
                      [] OTHER -> role
         /\ roleARN' = IF out = "ok" THEN RoleArn ELSE roleARN
         /\ IF out = "ok"
              THEN Goto("Build")
              ELSE Abort("failed to ensure execution role: failed to create role")
    /\ UNCHANGED <<libVars, hvars, function, logGroups, config, runs, zipData, checksum,
                   functionARN, status, logGroupName, warnings, snap>>

\* ensureExecutionRole: iamClient.CreateRole
CreateRole ==
    /\ pc = "CreateRole"
    /\ \E out \in (IF role.exists THEN {"exists"} ELSE {"ok", "raced"}) \cup {"err"} :
         /\ calls' = Append(calls, Call("CreateRole", out,
                        [RoleName |-> config.ExecutionRoleName,
                         AssumeRolePolicyDocument |-> TrustPolicy]))
         /\ role' = CASE out = "ok" ->
                           [exists |-> TRUE, arn |-> RoleArn, trust |-> TRUE,
                            inline |-> FALSE, by |-> "Deploy"]
                      [] out = "raced" ->
                           [exists |-> TRUE, arn |-> RoleArn, trust |-> TRUE,
                            inline |-> FALSE, by |-> "other"]
                      [] OTHER -> role
         /\ roleARN' = IF out = "ok" THEN RoleArn ELSE roleARN
         /\ IF out = "ok"
              THEN Goto("PutRolePolicy")
              ELSE Abort("failed to ensure execution role: failed to create role")
    /\ UNCHANGED <<libVars, hvars, function, logGroups, config, runs, zipData, checksum,
                   functionARN, status, logGroupName, warnings, snap>>

\* ensureExecutionRole: iamClient.PutRolePolicy
PutRolePolicy ==
    /\ pc = "PutRolePolicy"
    /\ \E out \in {"ok", "err"} :
         /\ calls' = Append(calls, Call("PutRolePolicy", out,
                        [RoleName |-> config.ExecutionRoleName,
                         PolicyName |-> "OIDCProvisionerPermissions",
                         PolicyDocument |-> PermissionsPolicy]))
         /\ role' = IF out = "ok" THEN [role EXCEPT !.inline = TRUE] ELSE role
         /\ IF out = "ok"
              THEN Goto("Build")
              ELSE Abort("failed to ensure execution role: failed to attach permissions policy")
    /\ UNCHANGED <<libVars, hvars, function, logGroups, config, runs, roleARN, zipData, checksum,
                   functionARN, status, logGroupName, warnings, snap>>

\* ---------------------------------------------------- step 2: the package
\* a Deploy that goes on to the function lookup after a failed build
BuildPackage_goesOn ==
    /\ pc = "Build"
    /\ \E compile \in {"ok", "fail"}, z \in Archives :
         LET b == Build(compile, z) IN
         /\ calls' = Append(calls, Call("Build",
                        IF b.err = "" THEN "ok" ELSE "err",
                        [compiled |-> compile = "ok"]))
         /\ zipData' = b.zipData
         /\ checksum' = b.hash
         /\ Goto("GetFunction")
    /\ UNCHANGED <<libVars, hvars, role, function, logGroups, config, runs, roleARN,
                   functionARN, status, logGroupName, warnings, snap>>

\* Deploy: NewPackageBuilder(d.config.SourceDir).Build(); the log entry
\* records whether compileBinary produced the binary
BuildPackage ==
    /\ pc = "Build"
    /\ \E compile \in {"ok", "fail"}, z \in Archives :
         LET b == Build(compile, z) IN
         /\ calls' = Append(calls, Call("Build",
                        IF b.err = "" THEN "ok" ELSE "err",
                        [compiled |-> compile = "ok"]))
         /\ zipData' = b.zipData
         /\ checksum' = b.hash
         /\ IF b.err = ""
              THEN Goto("GetFunction")
              ELSE Abort("failed to build Lambda package")
    /\ UNCHANGED <<libVars, hvars, role, function, logGroups, config, runs, roleARN,
                   functionARN, status, logGroupName, warnings, snap>>

\* ------------------------------------------- steps 3 and 4: the function
\* a function lookup whose result never selects the update branch
FunctionLookup_alwaysCreate(out) ==
    CASE out = "ok"       -> "create"
      [] out = "notfound" -> "create"
      [] OTHER            -> "fatal"

\* checkFunctionExists: what the outcome of GetFunction leads to
FunctionLookup(out) ==
    CASE out = "ok"       -> "update"
      [] out = "notfound" -> "create"
      [] OTHER            -> "fatal"

\* an update branch that does not take the identifier from the lookup
ExistingFunctionARN_empty(existingFunc) == ""

\* Deploy, update branch: functionARN = *existingFunc.Configuration.FunctionArn
ExistingFunctionARN(existingFunc) == existingFunc.arn

\* checkFunctionExists: lambdaClient.GetFunction
GetFunction ==
    /\ pc = "GetFunction"
    /\ \E out \in {IF function.exists THEN "ok" ELSE "notfound", "err"} :
         /\ calls' = Append(calls, Call("GetFunction", out,
                                        [FunctionName |-> config.FunctionName]))
         /\ functionARN' = IF FunctionLookup(out) = "update"
                              THEN ExistingFunctionARN(function) ELSE functionARN
         /\ CASE FunctionLookup(out) = "update" -> Goto("UpdateFunctionCode")
              [] FunctionLookup(out) = "create" -> Goto("CreateFunction")
              [] OTHER -> Abort("failed to check if function exists")
    /\ UNCHANGED <<libVars, hvars, role, function, logGroups, config, runs, roleARN, zipData,
                   checksum, status, logGroupName, warnings, snap>>

\* a Deploy that never grants the invoke permission
AfterFunction_never == "DescribeLogGroups"

\* where Deploy continues once the function is created or updated
AfterFunction ==
    IF config.CLMServiceRoleARN # "" /\ config.SourceAccountID # ""
      THEN "AddPermission" ELSE "DescribeLogGroups"

\* createFunction: lambdaClient.CreateFunction.  The account chooses the ARN.
CreateFunction ==
    /\ pc = "CreateFunction"
    /\ \E out \in (IF function.exists THEN {"exists"} ELSE {"ok", "raced"})
                       \cup {"err"},
          a \in FunctionArns :
         /\ calls' = Append(calls, Call("CreateFunction", out,
                        [FunctionName |-> config.FunctionName,
                         Runtime |-> config.Runtime,
                         Role |-> roleARN,
                         Handler |-> "bootstrap",
                         ZipFile |-> zipData,
                         MemorySize |-> config.MemorySize,
                         Timeout |-> config.Timeout,
                         Architectures |-> <<config.Architecture>>]))
         /\ function' =
              CASE out = "ok" ->
                     [exists |-> TRUE, arn |-> a, code |-> zipData,
                      role |-> roleARN, handler |-> "bootstrap",
                      perms |-> {}, tags |-> {}]
                [] out = "raced" ->
                     [exists |-> TRUE, arn |-> a, code |-> Archive(2048, 0),
                      role |-> RoleArn, handler |-> "bootstrap",
                      perms |-> {}, tags |-> {}]
                [] OTHER -> function
         /\ functionARN' = IF out = "ok" THEN a ELSE functionARN
         /\ status' = IF out = "ok" THEN "created" ELSE status
         /\ snap' = IF out = "ok"
                      THEN [set |-> TRUE, functionARN |-> a, roleARN |-> roleARN,
                            status |-> "created", zipData |-> zipData]
                      ELSE snap
         /\ IF out = "ok"
              THEN Goto(AfterFunction)
              ELSE Abort("failed to create function")
    /\ UNCHANGED <<libVars, hvars, role, logGroups, config, runs, roleARN, zipData, checksum,
                   logGroupName, warnings>>

\* an update path that goes on to the configuration when the code update failed
UpdateFunctionCode_bestEffort ==
    /\ pc = "UpdateFunctionCode"
    /\ \E out \in {"ok", "err"} :
         /\ calls' = Append(calls, Call("UpdateFunctionCode", out,
                        [FunctionName |-> config.FunctionName,
                         ZipFile |-> zipData]))
         /\ function' = IF out = "ok" THEN [function EXCEPT !.code = zipData]
                        ELSE function
         /\ Goto("UpdateFunctionConfiguration")
    /\ UNCHANGED <<libVars, hvars, role, logGroups, config, runs, roleARN, zipData, checksum,
                   functionARN, status, logGroupName, warnings, snap>>

\* updateFunction: lambdaClient.UpdateFunctionCode
UpdateFunctionCode ==
    /\ pc = "UpdateFunctionCode"
    /\ \E out \in {"ok", "err"} :
         /\ calls' = Append(calls, Call("UpdateFunctionCode", out,
                        [FunctionName |-> config.FunctionName,
                         ZipFile |-> zipData]))
         /\ function' = IF out = "ok" THEN [function EXCEPT !.code = zipData]
                        ELSE function
         /\ IF out = "ok"
              THEN Goto("UpdateFunctionConfiguration")
              ELSE Abort("failed to update function: failed to update function code")
    /\ UNCHANGED <<libVars, hvars, role, logGroups, config, runs, roleARN, zipData, checksum,
                   functionARN, status, logGroupName, warnings, snap>>

\* a configuration update that does not carry the role
UpdateFunctionConfiguration_noRole ==
    /\ pc = "UpdateFunctionConfiguration"
    /\ \E out \in {"ok", "err"} :
         /\ calls' = Append(calls, Call("UpdateFunctionConfiguration", out,
                        [FunctionName |-> config.FunctionName,
                         Runtime |-> config.Runtime,
                         Role |-> "",
                         Handler |-> "bootstrap",
                         MemorySize |-> config.MemorySize,
                         Timeout |-> config.Timeout]))
         /\ function' = IF out = "ok"
                          THEN [function EXCEPT !.role = roleARN,
                                                !.handler = "bootstrap"]
                          ELSE function
         /\ status' = IF out = "ok" THEN "updated" ELSE status
         /\ snap' = IF out = "ok"
                      THEN [set |-> TRUE, functionARN |-> functionARN,
                            roleARN |-> roleARN, status |-> "updated",
                            zipData |-> zipData]
                      ELSE snap
         /\ IF out = "ok"
              THEN Goto(AfterFunction)
              ELSE Abort("failed to update function: failed to update function configuration")
    /\ UNCHANGED <<libVars, hvars, role, logGroups, config, runs, roleARN, zipData, checksum,
                   functionARN, logGroupName, warnings>>

\* updateFunction: lambdaClient.UpdateFunctionConfiguration
UpdateFunctionConfiguration ==
    /\ pc = "UpdateFunctionConfiguration"
    /\ \E out \in {"ok", "err"} :
         /\ calls' = Append(calls, Call("UpdateFunctionConfiguration", out,
                        [FunctionName |-> config.FunctionName,
                         Runtime |-> config.Runtime,
                         Role |-> roleARN,
                         Handler |-> "bootstrap",
                         MemorySize |-> config.MemorySize,
                         Timeout |-> config.Timeout]))
         /\ function' = IF out = "ok"
                          THEN [function EXCEPT !.role = roleARN,
                                                !.handler = "bootstrap"]
                          ELSE function
         /\ status' = IF out = "ok" THEN "updated" ELSE status
         /\ snap' = IF out = "ok"
                      THEN [set |-> TRUE, functionARN |-> functionARN,
                            roleARN |-> roleARN, status |-> "updated",
                            zipData |-> zipData]
                      ELSE snap
         /\ IF out = "ok"
              THEN Goto(AfterFunction)
              ELSE Abort("failed to update function: failed to update function configuration")
    /\ UNCHANGED <<libVars, hvars, role, logGroups, config, runs, roleARN, zipData, checksum,
                   functionARN, logGroupName, warnings>>

\* --------------------------------------------- step 5: invocation policy
\* a generator that validates the account before the role
GenerateLambdaResourcePolicy_accountFirst(clmServiceRoleARN, sourceAccountID) ==
    IF sourceAccountID = ""
      THEN [policy |-> <<>>, err |-> "source account ID is required"]
    ELSE IF clmServiceRoleARN = ""
      THEN [policy |-> <<>>, err |-> "CLM service role ARN is required"]
    ELSE [policy |-> << [Version |-> "2012-10-17",
                         Statement |-> << [Effect |-> "Allow",
                             Principal |-> [AWS |-> clmServiceRoleARN],
                             Action |-> "lambda:InvokeFunction",
                             Resource |-> "*",
                             Condition |-> [StringEquals |->
                                 [k \in {"aws:SourceAccount"} |-> sourceAccountID]]] >>] >>,
          err |-> ""]

\* GenerateLambdaResourcePolicy(clmServiceRoleARN, sourceAccountID); the
\* returned JSON text is the document it encodes, "" is no document
GenerateLambdaResourcePolicy(clmServiceRoleARN, sourceAccountID) ==
    IF clmServiceRoleARN = ""
      THEN [policy |-> <<>>, err |-> "CLM service role ARN is required"]
    ELSE IF sourceAccountID = ""
      THEN [policy |-> <<>>, err |-> "source account ID is required"]
    ELSE [policy |-> << [Version |-> "2012-10-17",
                         Statement |-> << [Effect |-> "Allow",
                             Principal |-> [AWS |-> clmServiceRoleARN],
                             Action |-> "lambda:InvokeFunction",
                             Resource |-> "*",
                             Condition |-> [StringEquals |->
                                 [k \in {"aws:SourceAccount"} |-> sourceAccountID]]] >>] >>,
          err |-> ""]

StatementIds(f) == { p.StatementId : p \in f.perms }

\* addResourcePolicy: the permission that lambdaClient.AddPermission is sent
AddPermissionInput ==
    [FunctionName |-> config.FunctionName,
     StatementId  |-> "AllowCLMInvoke",
     Action       |-> "lambda:InvokeFunction",
     Principal    |-> <<"arn:aws:iam::", config.SourceAccountID, ":root">>,
     SourceArn    |-> config.CLMServiceRoleARN]

\* Deploy step "add resource-based policy": addResourcePolicy
AddPermission ==
    /\ pc = "AddPermission"
    /\ LET gen == GenerateLambdaResourcePolicy(config.CLMServiceRoleARN,
                                               config.SourceAccountID) IN
       IF gen.err # ""
         THEN /\ Warn(TRUE, "failed to add resource policy", "DescribeLogGroups")
              /\ UNCHANGED <<calls, function>>
         ELSE \E out \in {IF "AllowCLMInvoke" \in StatementIds(function)
                            THEN "conflict" ELSE "ok", "err"} :
                /\ calls' = Append(calls,
                                   Call("AddPermission", out, AddPermissionInput))
                /\ function' =
                     IF out = "ok"
                       THEN [function EXCEPT !.perms = @ \cup
                               {[StatementId |-> AddPermissionInput.StatementId,
                                 Action      |-> AddPermissionInput.Action,
                                 Principal   |-> AddPermissionInput.Principal,
                                 SourceArn   |-> AddPermissionInput.SourceArn]}]
                       ELSE function
                /\ Warn(out = "err", "failed to add resource policy",
                        "DescribeLogGroups")
    /\ UNCHANGED <<libVars, hvars, role, logGroups, config, runs, roleARN, zipData, checksum,
                   functionARN, status, logGroupName, snap>>

\* ------------------------------------------------------ step 6: log group
\* a Deploy that goes back to the permission grant when no tags are configured
AfterLogGroup_again == IF config.Tags # {} THEN "TagResource" ELSE "AddPermission"

\* a Deploy that tags the function whatever the configured tags
AfterLogGroup_always == "TagResource"

\* where Deploy continues once ensureLogGroup has returned
AfterLogGroup == IF config.Tags # {} THEN "TagResource" ELSE "Return"

\* the log groups DescribeLogGroups lists for a name prefix
Listed(prefix) == { n \in DOMAIN logGroups : IsPrefix(prefix, n) }

\* a log-group step satisfied by any listed group with the name as prefix
DescribeLogGroups_anyListed ==
    /\ pc = "DescribeLogGroups"
    /\ LET name == LogGroupNameOf(config.FunctionName) IN
       /\ logGroupName' = name
       /\ \E out \in {"ok", "err"} :
            /\ calls' = Append(calls, Call("DescribeLogGroups", out,
                                           [LogGroupNamePrefix |-> name]))
            /\ IF out = "ok" /\ Cardinality(Listed(name)) > 0
                 THEN Goto(AfterLogGroup)
                 ELSE Goto("CreateLogGroup")
    /\ UNCHANGED <<libVars, hvars, role, function, logGroups, config, runs, roleARN, zipData,
                   checksum, functionARN, status, warnings, snap>>

\* Deploy derives the log-group name; ensureLogGroup: DescribeLogGroups
DescribeLogGroups ==
    /\ pc = "DescribeLogGroups"
    /\ LET name == LogGroupNameOf(config.FunctionName) IN
       /\ logGroupName' = name
       /\ \E out \in {"ok", "err"} :
            /\ calls' = Append(calls, Call("DescribeLogGroups", out,
                                           [LogGroupNamePrefix |-> name]))
            /\ IF /\ out = "ok"
                  /\ Cardinality(Listed(name)) > 0
                  /\ \E lg \in Listed(name) : lg = name
                 THEN Goto(AfterLogGroup)
                 ELSE Goto("CreateLogGroup")
    /\ UNCHANGED <<libVars, hvars, role, function, logGroups, config, runs, roleARN, zipData,
                   checksum, functionARN, status, warnings, snap>>

\* ensureLogGroup: cwLogsClient.CreateLogGroup
CreateLogGroup ==
    /\ pc = "CreateLogGroup"
    /\ \E out \in (IF logGroupName \in DOMAIN logGroups
                     THEN {"exists"} ELSE {"ok", "raced"}) \cup {"err"} :
         /\ calls' = Append(calls, Call("CreateLogGroup", out,
                                        [LogGroupName |-> logGroupName]))
         /\ logGroups' =
              IF out \in {"ok", "raced"}
                THEN logGroups @@ (logGroupName :> NewLogGroup)
                ELSE logGroups
         /\ Warn(out = "err", "failed to ensure log group",
                 IF out = "err" THEN AfterLogGroup ELSE "PutRetentionPolicy")
    /\ UNCHANGED <<libVars, hvars, role, function, config, runs, roleARN, zipData, checksum,
                   functionARN, status, logGroupName, snap>>

\* ensureLogGroup: cwLogsClient.PutRetentionPolicy
PutRetentionPolicy ==
    /\ pc = "PutRetentionPolicy"
    /\ \E out \in {"ok", "err"} :
         /\ calls' = Append(calls, Call("PutRetentionPolicy", out,
                        [LogGroupName |-> logGroupName,
                         RetentionInDays |-> RetentionInDays]))
         /\ logGroups' =
              IF out = "ok"
                THEN [logGroups EXCEPT ![logGroupName].retention = RetentionInDays]
                ELSE logGroups
         /\ Warn(out = "err", "failed to ensure log group",
                 IF out # "err" /\ config.Tags # {} THEN "TagLogGroup"
                 ELSE AfterLogGroup)
    /\ UNCHANGED <<libVars, hvars, role, function, config, runs, roleARN, zipData, checksum,
                   functionARN, status, logGroupName, snap>>

\* a tag call overwrites the tags whose keys it carries
MergeTags(old, new) ==
    { t \in old : \A u \in new : u[1] # t[1] } \cup new

\* ensureLogGroup: cwLogsClient.TagLogGroup
TagLogGroup ==
    /\ pc = "TagLogGroup"
    /\ \E out \in {"ok", "err"} :
         /\ calls' = Append(calls, Call("TagLogGroup", out,
                        [LogGroupName |-> logGroupName, Tags |-> config.Tags]))
         /\ logGroups' =
              IF out = "ok"
                THEN [logGroups EXCEPT ![logGroupName].tags =
                                          MergeTags(@, config.Tags)]
                ELSE logGroups
         /\ Warn(out = "err", "failed to tag log group", AfterLogGroup)
    /\ UNCHANGED <<libVars, hvars, role, function, config, runs, roleARN, zipData, checksum,
                   functionARN, status, logGroupName, snap>>

\* ------------------------------------------------- step 7: function tags
\* tagFunction: lambdaClient.TagResource
TagResource ==
    /\ pc = "TagResource"
    /\ \E out \in {"ok", "err"} :
         /\ calls' = Append(calls, Call("TagResource", out,
                        [Resource |-> functionARN, Tags |-> config.Tags]))
         /\ function' =
              IF out = "ok"
                THEN [function EXCEPT !.tags = MergeTags(@, config.Tags)]
                ELSE function
         /\ Warn(out = "err", "failed to tag function", "Return")
    /\ UNCHANGED <<libVars, hvars, role, logGroups, config, runs, roleARN, zipData, checksum,
                   functionARN, status, logGroupName, snap>>

\* ------------------------------------------------------------ the result
DeploymentResult(arn, name, roleArn, lg, st, z, sum) ==
    [FunctionARN     |-> arn,
     FunctionName    |-> name,
     ExecutionRole   |-> roleArn,
     LogGroupName    |-> lg,
     Status          |-> st,
     PackageSize     |-> z.size,
     PackageChecksum |-> sum]

\* a Deploy whose result reflects the warnings of steps 5-7
DeployReturn_degraded ==
    /\ pc = "Return"
    /\ result' = << DeploymentResult(functionARN, config.FunctionName, roleARN,
                                     IF warnings = {} THEN logGroupName ELSE <<>>,
                                     status, zipData, checksum) >>
    /\ err' = ""
    /\ pc' = "done"
    /\ UNCHANGED <<libVars, hvars, role, function, logGroups, config, runs, roleARN, zipData,
                   checksum, functionARN, status, logGroupName, calls, warnings,
                   snap, prev>>

\* Deploy: return &DeploymentResult{...}, nil
DeployReturn ==
    /\ pc = "Return"
    /\ result' = << DeploymentResult(functionARN, config.FunctionName, roleARN,
                                     logGroupName, status, zipData, checksum) >>
    /\ err' = ""
    /\ pc' = "done"
    /\ UNCHANGED <<libVars, hvars, role, function, logGroups, config, runs, roleARN, zipData,
                   checksum, functionARN, status, logGroupName, calls, warnings,
                   snap, prev>>

\* ------------------------------------------------- the setup-account command
\* a line the command prints: its text and the values formatted into it
Line(text, args) == [text |-> text, args |-> args]

\* runSetupAccount, after "Deploying OIDC provisioner Lambda function...":
\* the lines printed for what Deploy returned (res, e), without --verbose,
\* given the flags --clm-service-role-arn and --source-account-id
runSetupAccount(res, e, clmServiceRoleARN, sourceAccountID) ==
    IF e # ""
      THEN << Line("Deployment failed", <<>>) >>
      ELSE << Line("Lambda function %s: %s", <<res[1].Status, res[1].FunctionName>>) >>
           \o (IF res[1].Status = "created"
                 THEN << Line("IAM execution role created", <<>>),
                         Line("CloudWatch Log Group created", <<>>) >>
                 ELSE << Line("Lambda function updated", <<>>) >>)
           \o (IF clmServiceRoleARN # "" /\ sourceAccountID # ""
                 THEN << Line("Resource policy configured for CLM invocation", <<>>) >>
                 ELSE <<>>)
           \o << Line("Setup complete. Lambda function deployed: %s",
                      <<res[1].FunctionARN>>),
                 Line("Your AWS account is now configured for ROSA cluster provisioning.",
                      <<>>) >>

(***************************************************************************)
(* The OIDC provisioner handler                                            *)
(***************************************************************************)
MaxHandles == 2       \* Handle calls on one account
MaxSlashes == 3       \* trailing separators on a requested issuer URL

STR_https == <<"h", "t", "t", "p", "s">>
STR_http  == <<"h", "t", "t", "p">>
URL_a     == <<"h", "t", "t", "p", "s", ":", "/", "/", "a">>
URL_b     == <<"h", "t", "t", "p", "s", ":", "/", "/", "b">>

RECURSIVE Slashes(_)
Slashes(n) == IF n = 0 THEN <<>> ELSE <<"/">> \o Slashes(n - 1)

IndexOf(s, c) ==
    IF \E i \in 1..Len(s) : s[i] = c
      THEN CHOOSE i \in 1..Len(s) : s[i] = c /\ \A j \in 1..(i - 1) : s[j] # c
      ELSE 0

Letters == {"a", "b", "h", "p", "s", "t"}

\* net/url Parse, for URLs without userinfo, port, query or fragment:
\* the scheme is the letters before the first ":", the host what follows
\* "//" up to the next "/".
ParseURL(u) ==
    LET colon  == IndexOf(u, ":")
        hasSch == colon > 1 /\ \A i \in 1..(colon - 1) : u[i] \in Letters
        scheme == IF hasSch THEN SubSeq(u, 1, colon - 1) ELSE <<>>
        rest   == IF hasSch THEN SubSeq(u, colon + 1, Len(u)) ELSE u
        auth   == IF IsPrefix(<<"/", "/">>, rest)
                    THEN SubSeq(rest, 3, Len(rest)) ELSE <<>>
        slash  == IndexOf(auth, "/")
        host   == IF slash = 0 THEN auth ELSE SubSeq(auth, 1, slash - 1)
    IN  IF colon = 1
          THEN [err |-> "missing protocol scheme", Scheme |-> <<>>, Host |-> <<>>]
          ELSE [err |-> "", Scheme |-> scheme, Host |-> host]

\* a validateRequest that looks at the thumbprint before the URL's scheme
validateRequest_thumbprintFirst(r) ==
    LET parsedURL == ParseURL(r.IssuerURL) IN
    IF r.IssuerURL = <<>> THEN "issuer_url is required"
    ELSE IF parsedURL.err # "" THEN "invalid issuer_url"
    ELSE IF r.Thumbprint = "" THEN "thumbprint is required"
    ELSE IF parsedURL.Scheme # STR_https THEN "issuer_url must use https scheme"
    ELSE IF parsedURL.Host = <<>> THEN "issuer_url must have a valid host"
    ELSE IF r.ClusterID = "" THEN "cluster_id is required"
    ELSE ""

\* a validateRequest that does not ask for the cluster identifier
validateRequest_noClusterID(r) ==
    LET parsedURL == ParseURL(r.IssuerURL) IN
    IF r.IssuerURL = <<>> THEN "issuer_url is required"
    ELSE IF parsedURL.err # "" THEN "invalid issuer_url"
    ELSE IF parsedURL.Scheme # STR_https THEN "issuer_url must use https scheme"
    ELSE IF parsedURL.Host = <<>> THEN "issuer_url must have a valid host"
    ELSE IF r.Thumbprint = "" THEN "thumbprint is required"
    ELSE ""

\* Handler.validateRequest
validateRequest(r) ==
    LET parsedURL == ParseURL(r.IssuerURL) IN
    IF r.IssuerURL = <<>> THEN "issuer_url is required"
    ELSE IF parsedURL.err # "" THEN "invalid issuer_url"
    ELSE IF parsedURL.Scheme # STR_https THEN "issuer_url must use https scheme"
    ELSE IF parsedURL.Host = <<>> THEN "issuer_url must have a valid host"
    ELSE IF r.Thumbprint = "" THEN "thumbprint is required"
    ELSE IF r.ClusterID = "" THEN "cluster_id is required"
    ELSE ""

IssuerURLs ==
    { URL_a \o Slashes(n) : n \in 0..MaxSlashes } \cup
    { URL_b, <<>>, <<":", "a">>, <<"a">>, STR_http \o <<":", "/", "/", "a">>,
      STR_https \o <<":", "/", "/">> }

OIDCProvisionerRequest ==
    [IssuerURL  : IssuerURLs,
     Thumbprint : {"", "abc123"},
     ClusterID  : {"", "cluster-1"},
     ClientIDs  : {<<>>, <<"custom-client">>}]

\* the identifier the account gives a provider: derived from its URL
\* without the scheme
ProviderArn(url) == <<"arn:aws:iam::oidc-provider/">> \o SubSeq(url, 9, Len(url))

Provider(url) == [arn |-> ProviderArn(url), url |-> url, tags |-> {}]

NoRequest == [IssuerURL |-> <<>>, Thumbprint |-> "", ClusterID |-> "",
              ClientIDs |-> <<>>]

InitProviders ==
    { <<>>,
      << Provider(URL_a) >>,
      << Provider(URL_a \o <<"/">>) >>,
      << Provider(URL_b) >>,
      << Provider(URL_b), Provider(URL_a) >>,
      << Provider(URL_a \o <<"/">>), Provider(URL_a) >> }

\* NewHandler(iamClient)
HandlerInit ==
    /\ providers \in InitProviders
    /\ hpc = "idle"
    /\ handles = 0
    /\ req = NoRequest
    /\ before = {}
    /\ issuerURL = <<>> /\ normalizedIssuerURL = <<>>
    /\ scan = 0 /\ providerARN = <<>>
    /\ resp = <<>> /\ herr = "" /\ hcalls = <<>> /\ hwarnings = {}
    /\ hhist = <<>>

StoredURLs(ps) == { ps[i].url : i \in 1..Len(ps) }

\* what a finished Handle call leaves in hhist
HSummary(r, b, rsp, e, cs) ==
    [url     |-> r.IssuerURL,
     before  |-> b,
     resp    |-> rsp,
     err     |-> e,
     clean   |-> \A i \in 1..Len(cs) : cs[i].out = "ok",
     creates |-> Cardinality({ i \in 1..Len(cs) :
                                 cs[i].op = "CreateOpenIDConnectProvider" })]

HGoto(p) == hpc' = p /\ UNCHANGED <<resp, herr, hhist>>

\* Handle returns (response, error)
HFinish(r, b, rsp, e, cs) ==
    /\ hpc' = "done"
    /\ resp' = rsp
    /\ herr' = e
    /\ hhist' = Append(hhist, HSummary(r, b, rsp, e, cs))



\* a tagProvider that sets the component tag only
TagInput_componentOnly(arn, clusterID) ==
    [OpenIDConnectProviderArn |-> arn,
     Tags |-> {<<"rosa:component", "oidc-provider">>}]

\* Handler.tagProvider: the tag call's input
TagInput(arn, clusterID) ==
    [OpenIDConnectProviderArn |-> arn,
     Tags |-> {<<"rosa:component", "oidc-provider">>} \cup
              (IF clusterID # "" THEN {<<"rosa:cluster-id", clusterID>>} ELSE {})]

Tagged(ps, arn, tags) ==
    [i \in 1..Len(ps) |->
        IF ps[i].arn = arn THEN [ps[i] EXCEPT !.tags = MergeTags(@, tags)]
        ELSE ps[i]]

OIDCProvisionerResponse(arn, st, msg) ==
    [OIDCProviderARN |-> arn, Status |-> st, Message |-> msg]

\* Handle is entered: validateRequest, then the issuer URL is normalized
HandleStart ==
    /\ hpc \in {"idle", "done"}
    /\ handles < MaxHandles
    /\ handles' = handles + 1
    /\ \E r \in OIDCProvisionerRequest :
         /\ req' = r
         /\ before' = StoredURLs(providers)
         /\ IF validateRequest(r) # ""
              THEN /\ hpc' = "done"
                   /\ resp' = <<>>
                   /\ herr' = validateRequest(r)
                   /\ issuerURL' = <<>>
                   /\ UNCHANGED hhist
              ELSE /\ issuerURL' = TrimSuffix(r.IssuerURL, "/")
                   /\ hpc' = "List"
                   /\ resp' = <<>> /\ herr' = ""
                   /\ UNCHANGED hhist
    /\ normalizedIssuerURL' = <<>> /\ scan' = 0 /\ providerARN' = <<>>
    /\ hcalls' = <<>> /\ hwarnings' = {}
    /\ UNCHANGED <<libVars, vars, providers>>

\* checkProviderExists: the issuer URL is normalized again, then
\* iamClient.ListOpenIDConnectProviders
ListOpenIDConnectProviders ==
    /\ hpc = "List"
    /\ normalizedIssuerURL' = TrimSuffix(issuerURL, "/")
    /\ \E out \in {"ok", "err"} :
         LET cs == Append(hcalls, Call("ListOpenIDConnectProviders", out, NoArg)) IN
         /\ hcalls' = cs
         /\ IF out = "err"
              THEN /\ HFinish(req, before, <<>>,
                              "failed to check if provider exists", cs)
                   /\ UNCHANGED scan
              ELSE IF Len(providers) = 0
                     THEN HGoto("Create") /\ UNCHANGED scan
                     ELSE HGoto("Get") /\ scan' = 1
    /\ UNCHANGED <<libVars, vars, providers, handles, req, before, issuerURL, providerARN,
                   hwarnings>>

\* checkProviderExists: the comparison of a stored URL with the request's
Matches(url, normalized) == TrimSuffix(url, "/") = normalized

\* a scan that gives up at the first candidate whose detail cannot be fetched
GetOpenIDConnectProvider_fatal ==
    /\ hpc = "Get"
    /\ LET provider == providers[scan] IN
       \E out \in {"ok", "err"} :
         LET cs == Append(hcalls, Call("GetOpenIDConnectProvider", out,
                         [OpenIDConnectProviderArn |-> provider.arn])) IN
         /\ hcalls' = cs
         /\ IF out = "err"
              THEN /\ HFinish(req, before, <<>>,
                              "failed to check if provider exists", cs)
                   /\ UNCHANGED <<scan, providerARN>>
              ELSE IF Matches(provider.url, normalizedIssuerURL)
                THEN /\ providerARN' = provider.arn
                     /\ HGoto("TagExisting")
                     /\ UNCHANGED scan
                ELSE /\ UNCHANGED providerARN
                     /\ IF scan < Len(providers)
                          THEN HGoto("Get") /\ scan' = scan + 1
                          ELSE HGoto("Create") /\ UNCHANGED scan
    /\ UNCHANGED <<libVars, vars, providers, handles, req, before, issuerURL,
                   normalizedIssuerURL, hwarnings>>

\* a scan that goes through the whole list and keeps the last match
GetOpenIDConnectProvider_lastMatch ==
    /\ hpc = "Get"
    /\ LET provider == providers[scan] IN
       \E out \in {"ok", "err"} :
         LET found == IF out = "ok" /\ Matches(provider.url, normalizedIssuerURL)
                        THEN provider.arn ELSE providerARN IN
         /\ hcalls' = Append(hcalls, Call("GetOpenIDConnectProvider", out,
                         [OpenIDConnectProviderArn |-> provider.arn]))
         /\ providerARN' = found
         /\ IF scan < Len(providers)
              THEN HGoto("Get") /\ scan' = scan + 1
              ELSE /\ HGoto(IF found # <<>> THEN "TagExisting" ELSE "Create")
                   /\ UNCHANGED scan
    /\ UNCHANGED <<libVars, vars, providers, handles, req, before, issuerURL,
                   normalizedIssuerURL, hwarnings>>

\* checkProviderExists: iamClient.GetOpenIDConnectProvider for the provider
\* the scan is at, and the comparison of its URL
GetOpenIDConnectProvider ==
    /\ hpc = "Get"
    /\ LET provider == providers[scan] IN
       \E out \in {"ok", "err"} :
         /\ hcalls' = Append(hcalls, Call("GetOpenIDConnectProvider", out,
                         [OpenIDConnectProviderArn |-> provider.arn]))
         /\ IF out = "ok" /\ Matches(provider.url, normalizedIssuerURL)
              THEN /\ providerARN' = provider.arn
                   /\ HGoto("TagExisting")
                   /\ UNCHANGED scan
              ELSE /\ UNCHANGED providerARN
                   /\ IF scan < Len(providers)
                        THEN HGoto("Get") /\ scan' = scan + 1
                        ELSE HGoto("Create") /\ UNCHANGED scan
    /\ UNCHANGED <<libVars, vars, providers, handles, req, before, issuerURL,
                   normalizedIssuerURL, hwarnings>>

\* an already-exists path that only warns when tagging fails
TagExistingProvider_tolerant ==
    /\ hpc = "TagExisting"
    /\ \E out \in {"ok", "err"} :
         LET input == TagInput(providerARN, req.ClusterID)
             cs == Append(hcalls, Call("TagOpenIDConnectProvider", out, input)) IN
         /\ hcalls' = cs
         /\ providers' = IF out = "ok"
                           THEN Tagged(providers, providerARN, input.Tags)
                           ELSE providers
         /\ HFinish(req, before,
                    << OIDCProvisionerResponse(providerARN, "already_exists",
                           "OIDC provider already exists") >>, "", cs)
    /\ UNCHANGED <<libVars, vars, handles, req, before, issuerURL, normalizedIssuerURL,
                   scan, providerARN, hwarnings>>

\* Handle, provider found: tagProvider on the existing provider
TagExistingProvider ==
    /\ hpc = "TagExisting"
    /\ \E out \in {"ok", "err"} :
         LET input == TagInput(providerARN, req.ClusterID)
             cs == Append(hcalls, Call("TagOpenIDConnectProvider", out, input)) IN
         /\ hcalls' = cs
         /\ providers' = IF out = "ok"
                           THEN Tagged(providers, providerARN, input.Tags)
                           ELSE providers
         /\ IF out = "ok"
              THEN HFinish(req, before,
                           << OIDCProvisionerResponse(providerARN, "already_exists",
                                  "OIDC provider already exists") >>, "", cs)
              ELSE HFinish(req, before, <<>>,
                           "failed to tag existing provider", cs)
    /\ UNCHANGED <<libVars, vars, handles, req, before, issuerURL, normalizedIssuerURL,
                   scan, providerARN, hwarnings>>

\* a createProvider that sends the default client identifiers always
CreateInput_alwaysDefaults(r) ==
    [Url            |-> TrimSuffix(r.IssuerURL, "/"),
     ThumbprintList |-> <<r.Thumbprint>>,
     ClientIDList   |-> <<"openshift", "sts.amazonaws.com">>]

\* Handler.createProvider: the create call's input
CreateInput(r) ==
    [Url            |-> TrimSuffix(r.IssuerURL, "/"),
     ThumbprintList |-> <<r.Thumbprint>>,
     ClientIDList   |-> IF Len(r.ClientIDs) > 0 THEN r.ClientIDs
                        ELSE <<"openshift", "sts.amazonaws.com">>]

\* Handle, no provider found: createProvider.  The account refuses a URL
\* it already holds a provider for.
CreateOpenIDConnectProvider ==
    /\ hpc = "Create"
    /\ LET input == CreateInput(req) IN
       \E out \in {IF input.Url \in StoredURLs(providers) THEN "exists" ELSE "ok",
                   "err"} :
         LET cs == Append(hcalls,
                          Call("CreateOpenIDConnectProvider", out, input)) IN
         /\ hcalls' = cs
         /\ IF out = "ok"
              THEN /\ providers' = Append(providers, Provider(input.Url))
                   /\ providerARN' = ProviderArn(input.Url)
                   /\ HGoto("TagNew")
              ELSE /\ HFinish(req, before, <<>>,
                              "failed to create OIDC provider", cs)
                   /\ UNCHANGED <<providers, providerARN>>
    /\ UNCHANGED <<libVars, vars, handles, req, before, issuerURL, normalizedIssuerURL,
                   scan, hwarnings>>

\* a just-created path on which a failed tag call fails the run
TagNewProvider_fatal ==
    /\ hpc = "TagNew"
    /\ \E out \in {"ok", "err"} :
         LET input == TagInput(providerARN, req.ClusterID)
             cs == Append(hcalls, Call("TagOpenIDConnectProvider", out, input)) IN
         /\ hcalls' = cs
         /\ providers' = IF out = "ok"
                           THEN Tagged(providers, providerARN, input.Tags)
                           ELSE providers
         /\ hwarnings' = hwarnings
         /\ IF out = "ok"
              THEN HFinish(req, before,
                           << OIDCProvisionerResponse(providerARN, "created",
                                  "OIDC provider created successfully") >>, "", cs)
              ELSE HFinish(req, before, <<>>, "failed to tag provider", cs)
    /\ UNCHANGED <<libVars, vars, handles, req, before, issuerURL, normalizedIssuerURL,
                   scan, providerARN>>

\* Handle, provider created: tagProvider on the new provider
TagNewProvider ==
    /\ hpc = "TagNew"
    /\ \E out \in {"ok", "err"} :
         LET input == TagInput(providerARN, req.ClusterID)
             cs == Append(hcalls, Call("TagOpenIDConnectProvider", out, input)) IN
         /\ hcalls' = cs
         /\ providers' = IF out = "ok"
                           THEN Tagged(providers, providerARN, input.Tags)
                           ELSE providers
         /\ hwarnings' = IF out = "err"
                           THEN hwarnings \cup {"failed to tag provider"}
                           ELSE hwarnings
         /\ HFinish(req, before,
                    << OIDCProvisionerResponse(providerARN, "created",
                           "OIDC provider created successfully") >>, "", cs)
    /\ UNCHANGED <<libVars, vars, handles, req, before, issuerURL, normalizedIssuerURL,
                   scan, providerARN>>

(***************************************************************************)
(* The package builder called on its own                                   *)
(***************************************************************************)
MaxBuilds == 2

\* permission bits: 0755, and what a compiler or a test may leave on disk
ExecutableMode == 493
FileModes      == {384, 420, 493}

\* mode&0111 != 0
Executable(m) == (m \div 64) % 2 = 1 \/ (m \div 8) % 2 = 1 \/ m % 2 = 1

SourceDirs == {"../functions/oidc-provisioner", "/nonexistent/directory"}
TmpNames   == {"lambda-build-1", "lambda-build-2"}

\* a file: its base name, its permission bits, and the bytes deflate makes
\* of its content
File(n, m, z) == [exists |-> TRUE, name |-> n, mode |-> m, packed |-> z]
NoFile        == [exists |-> FALSE, name |-> "", mode |-> 0, packed |-> NoArchive]
NoZip         == [size |-> 0, body |-> 0, entries |-> <<>>]
NoReturn      == [zipData |-> NoZip, hash |-> <<>>, err |-> ""]

\* zip.FileInfoHeader(fileInfo)
FileInfoHeader(fi) == [Name |-> fi.name, Mode |-> fi.mode, Method |-> "Store"]

\* a SetMode that leaves the header as FileInfoHeader made it
SetMode_keep(h, m) == h

\* header.SetMode(mode)
SetMode(h, m) == [h EXCEPT !.Mode = m]

\* createZipPackage(binaryPath): file is what is at binaryPath, io the
\* outcome of writing the entry.  Returns (bytes, err).
createZipPackage(file, io) ==
    IF ~file.exists
      THEN [zipData |-> NoZip, err |-> "failed to open binary"]
    ELSE IF io # "ok"
      THEN [zipData |-> NoZip, err |-> "failed to write binary to zip"]
    ELSE LET header ==
               SetMode([FileInfoHeader(file) EXCEPT !.Name = "bootstrap",
                                                    !.Method = "Deflate"],
                       ExecutableMode)
         IN  [zipData |-> [size |-> file.packed.size, body |-> file.packed.body,
                           entries |-> <<header>>],
              err |-> ""]

\* no builder call made
BuilderIdle ==
    /\ sourceDir = "" /\ tmp = {}
    /\ bpc = "idle" /\ builds = 0 /\ bop = ""
    /\ tmpDir = "" /\ binary = NoFile /\ zipBuf = NoZip /\ ret = NoReturn

\* NewPackageBuilder(sourceDir), on a machine whose temporary directory may
\* hold what an earlier process left behind
BuilderInit ==
    /\ sourceDir \in SourceDirs
    /\ tmp \in {{}, {"lambda-build-1"}}
    /\ bpc = "idle" /\ builds = 0 /\ bop = ""
    /\ tmpDir = "" /\ binary = NoFile /\ zipBuf = NoZip /\ ret = NoReturn

\* a return statement of Build; the deferred RemoveAll runs in BuildReturn
Return(zip, hash, msg) ==
    /\ ret' = [zipData |-> zip, hash |-> hash, err |-> msg]
    /\ bpc' = "return"

\* a call of pb.Build()
BuildStart ==
    /\ bpc \in {"idle", "done"}
    /\ builds < MaxBuilds
    /\ builds' = builds + 1
    /\ bop' = "Build"
    /\ bpc' = "MkdirTemp"
    /\ tmpDir' = "" /\ binary' = NoFile /\ zipBuf' = NoZip /\ ret' = NoReturn
    /\ UNCHANGED <<vars, hvars, gvars, avars, sourceDir, tmp>>

\* Build: os.MkdirTemp("", "lambda-build-*")
MkdirTemp ==
    /\ bpc = "MkdirTemp"
    /\ \/ \E d \in TmpNames \ tmp :
            /\ tmp' = tmp \cup {d}
            /\ tmpDir' = d
            /\ bpc' = "compileBinary"
            /\ UNCHANGED ret
       \/ /\ ret' = [zipData |-> NoZip, hash |-> <<>>,
                     err |-> "failed to create temp directory"]
          /\ bpc' = "done"
          /\ UNCHANGED <<tmp, tmpDir>>
    /\ UNCHANGED <<vars, hvars, gvars, avars, sourceDir, builds, bop, binary, zipBuf>>

CompileOutcomes ==
    IF sourceDir = "/nonexistent/directory"
      THEN {"run"}
      ELSE {"ok", "run", "stat", "chmod"}

\* Build: pb.compileBinary(binaryPath); the outcome names the call that
\* failed: cmd.Run, os.Stat or os.Chmod
compileBinary ==
    /\ bpc = "compileBinary"
    /\ \E out \in CompileOutcomes, m \in FileModes, z \in Archives :
         /\ binary' = CASE out = "ok"    -> File("bootstrap", ExecutableMode, z)
                         [] out = "chmod" -> File("bootstrap", m, z)
                         [] OTHER         -> NoFile
         /\ IF out = "ok"
              THEN bpc' = "createZipPackage" /\ UNCHANGED ret
              ELSE LET b == Build("fail", NoArchive)
                   IN  Return(NoZip, b.hash, b.err)
    /\ UNCHANGED <<vars, hvars, gvars, avars, sourceDir, tmp, builds, bop, tmpDir, zipBuf>>

\* Build: pb.createZipPackage(binaryPath), the size check and the digest
PackageBinary ==
    /\ bpc = "createZipPackage"
    /\ \E io \in {"ok", "err"} :
         LET z == createZipPackage(binary, io) IN
         /\ zipBuf' = z.zipData
         /\ IF z.err # ""
              THEN Return(NoZip, <<>>, "failed to create zip package")
              ELSE LET b == Build("ok", z.zipData)
                   IN  Return(IF b.err = "" THEN b.zipData ELSE NoZip, b.hash, b.err)
    /\ UNCHANGED <<vars, hvars, gvars, avars, sourceDir, tmp, builds, bop, tmpDir, binary>>

\* a Build whose temporary directory is removed on success only
BuildReturn_onSuccess ==
    /\ bpc = "return"
    /\ bpc' = "done"
    /\ tmp' = IF ret.err = "" THEN tmp \ {tmpDir} ELSE tmp
    /\ binary' = IF ret.err = "" THEN NoFile ELSE binary
    /\ UNCHANGED <<vars, hvars, gvars, avars, sourceDir, builds, bop, tmpDir, zipBuf, ret>>

\* Build: defer os.RemoveAll(tmpDir), run when Build returns
BuildReturn ==
    /\ bpc = "return"
    /\ bpc' = "done"
    /\ tmp' = tmp \ {tmpDir}
    /\ binary' = NoFile
    /\ UNCHANGED <<vars, hvars, gvars, avars, sourceDir, builds, bop, tmpDir, zipBuf, ret>>

\* a call of pb.createZipPackage(binaryPath) on a file of the caller
ZipFile ==
    /\ bpc \in {"idle", "done"}
    /\ builds < MaxBuilds
    /\ builds' = builds + 1
    /\ bop' = "createZipPackage"
    /\ bpc' = "done"
    /\ tmpDir' = ""
    /\ \E f \in {NoFile} \cup { File(n, m, z) : n \in {"bootstrap", "main"},
                                   m \in FileModes, z \in Archives },
          io \in {"ok", "err"} :
         LET z == createZipPackage(f, io) IN
         /\ binary' = f
         /\ zipBuf' = z.zipData
         /\ ret' = [zipData |-> z.zipData, hash |-> <<>>, err |-> z.err]
    /\ UNCHANGED <<vars, hvars, gvars, avars, sourceDir, tmp>>

(***************************************************************************)
(* The policy generator called on its own                                  *)
(***************************************************************************)
\* the identifiers a caller may pass, the empty string among them
InvokerRoleARNs == {"", "arn:aws:iam::role/clm", "arn:aws:iam::role/clm-2",
                    "arn:aws:iam::role/invoker", "123456789012", "*"}
SourceAccountIDs == {"", "123456789012", "210987654321", "arn:aws:iam::role/clm", "*"}

NoPolicy == [policy |-> <<>>, err |-> ""]

\* no generator call made
GeneratorIdle ==
    /\ generator = ""
    /\ gargs = [clmServiceRoleARN |-> "", sourceAccountID |-> ""]
    /\ gout = NoPolicy

GeneratorInit ==
    /\ generator = ""
    /\ gargs \in [clmServiceRoleARN : InvokerRoleARNs, sourceAccountID : SourceAccountIDs]
    /\ gout = NoPolicy

\* a call of GenerateLambdaExecutionRoleTrustPolicy()
CallTrustPolicy ==
    /\ generator' = "GenerateLambdaExecutionRoleTrustPolicy"
    /\ gout' = [policy |-> <<TrustPolicy>>, err |-> ""]
    /\ UNCHANGED <<vars, hvars, bvars, avars, gargs>>

\* a call of GenerateOIDCProvisionerPermissionsPolicy()
CallPermissionsPolicy ==
    /\ generator' = "GenerateOIDCProvisionerPermissionsPolicy"
    /\ gout' = [policy |-> <<PermissionsPolicy>>, err |-> ""]
    /\ UNCHANGED <<vars, hvars, bvars, avars, gargs>>

\* a call of GenerateLambdaResourcePolicy(clmServiceRoleARN, sourceAccountID)
CallResourcePolicy ==
    /\ generator' = "GenerateLambdaResourcePolicy"
    /\ gout' = GenerateLambdaResourcePolicy(gargs.clmServiceRoleARN,
                                            gargs.sourceAccountID)
    /\ UNCHANGED <<vars, hvars, bvars, avars, gargs>>

(***************************************************************************)
(* The credentials validator called on its own                             *)
(***************************************************************************)
supportedRegions ==
    <<"us-east-1", "us-east-2", "us-west-1", "us-west-2",
      "eu-west-1", "eu-west-2", "eu-west-3", "eu-central-1", "eu-north-1",
      "ap-southeast-1", "ap-southeast-2", "ap-northeast-1", "ap-northeast-2",
      "ap-south-1", "sa-east-1", "ca-central-1">>

\* a region check that accepts every configured region
isSupportedRegion_configured(r) == r # ""

\* isSupportedRegion(region)
isSupportedRegion(r) == \E i \in 1..Len(supportedRegions) : r = supportedRegions[i]

\* the regions a validator may be constructed with
Regions == { supportedRegions[i] : i \in 1..Len(supportedRegions) }
           \cup {"", "unsupported-region", "xyz", "US-EAST-1"}

\* *string: <<>> is nil, <<s>> points to s
awsToString(ptr) == IF ptr = <<>> THEN "" ELSE ptr[1]

NoIdentity == [Account |-> <<>>, Arn |-> <<>>]

\* what GetCallerIdentity may answer
GetCallerIdentityOutput ==
    [Account : {<<>>, <<"123456789012">>},
     Arn     : {<<>>, <<"arn:aws:iam::123456789012:user/test">>}]
GetCallerIdentityErrors == {<<"invalid credentials">>, <<"ExpiredToken">>}

ValidationResult(valid, account, arn, reg, msg) ==
    [Valid |-> valid, AccountID |-> account, UserARN |-> arn, Region |-> reg,
     ErrorMessage |-> msg]
NoValidation == ValidationResult(FALSE, "", "", "", <<>>)

\* no validator at work
ValidatorIdle ==
    /\ region = "" /\ vpc = "idle"
    /\ identity = NoIdentity /\ idErr = <<>>
    /\ validation = NoValidation /\ verr = <<>>

\* NewAWSValidator(stsClient, region)
ValidatorInit ==
    /\ region \in Regions
    /\ vpc = "idle"
    /\ identity = NoIdentity /\ idErr = <<>>
    /\ validation = NoValidation /\ verr = <<>>

\* a call of v.Validate(ctx)
ValidateStart ==
    /\ vpc \in {"idle", "done"}
    /\ vpc' = "GetCallerIdentity"
    /\ identity' = NoIdentity /\ idErr' = <<>>
    /\ validation' = NoValidation /\ verr' = <<>>
    /\ UNCHANGED <<vars, hvars, gvars, bvars, region>>

\* Validate: v.stsClient.GetCallerIdentity and the return on its error
GetCallerIdentity ==
    /\ vpc = "GetCallerIdentity"
    /\ \/ \E output \in GetCallerIdentityOutput :
            /\ identity' = output
            /\ vpc' = "Region"
            /\ UNCHANGED <<idErr, validation, verr>>
       \/ \E e \in GetCallerIdentityErrors :
            /\ idErr' = e
            /\ validation' = ValidationResult(FALSE, "", "", "",
                                <<"Failed to validate AWS credentials: ", e[1]>>)
            /\ verr' = e
            /\ vpc' = "done"
            /\ UNCHANGED identity
    /\ UNCHANGED <<vars, hvars, gvars, bvars, region>>

\* Validate: the two region checks and the successful return
ValidateRegion ==
    /\ vpc = "Region"
    /\ vpc' = "done"
    /\ IF region = ""
         THEN /\ validation' = ValidationResult(FALSE, "", "", "",
                                    <<"AWS region is not configured">>)
              /\ verr' = <<"region not configured">>
       ELSE IF ~isSupportedRegion(region)
         THEN /\ validation' = ValidationResult(FALSE, "", "", region,
                                    <<"AWS region '", region, "' is not supported">>)
              /\ verr' = <<"unsupported region: ", region>>
       ELSE /\ validation' = ValidationResult(TRUE, awsToString(identity.Account),
                                  awsToString(identity.Arn), region, <<>>)
            /\ verr' = <<>>
    /\ UNCHANGED <<vars, hvars, gvars, bvars, region, identity, idErr>>

(***************************************************************************)
(* Specifications                                                          *)
(***************************************************************************)
\* no Deployer at work
DeployerIdle ==
    /\ role = NoRole /\ function = NoFunction
    /\ logGroups = [n \in {} |-> NewLogGroup]
    /\ config \in {c \in DeploymentConfig :
                     c.CLMServiceRoleARN = "" /\ c.SourceAccountID = ""
                     /\ c.Tags = {}}
    /\ pc = "idle"
    /\ runs = 0
    /\ roleARN = "" /\ zipData = NoArchive /\ checksum = <<>>
    /\ functionARN = "" /\ status = "" /\ logGroupName = <<>>
    /\ result = <<>> /\ err = "" /\ calls = <<>> /\ warnings = {}
    /\ snap = NoSnap
    /\ prev = NoPrev

\* no Handler at work
HandlerIdle ==
    /\ providers = <<>>
    /\ hpc = "idle"
    /\ handles = 0
    /\ req = NoRequest
    /\ before = {}
    /\ issuerURL = <<>> /\ normalizedIssuerURL = <<>>
    /\ scan = 0 /\ providerARN = <<>>
    /\ resp = <<>> /\ herr = "" /\ hcalls = <<>> /\ hwarnings = {}
    /\ hhist = <<>>

allVars == <<vars, hvars, libVars>>

\* the deployment orchestrator against one account
LibIdle == GeneratorIdle /\ BuilderIdle /\ ValidatorIdle

Init == DeployerInit /\ HandlerIdle /\ LibIdle

Next ==
    \/ DeployStart
    \/ GetRole
    \/ CreateRole
    \/ PutRolePolicy
    \/ BuildPackage
    \/ GetFunction
    \/ CreateFunction
    \/ UpdateFunctionCode
    \/ UpdateFunctionConfiguration
    \/ AddPermission
    \/ DescribeLogGroups
    \/ CreateLogGroup
    \/ PutRetentionPolicy
    \/ TagLogGroup
    \/ TagResource
    \/ DeployReturn

Spec == Init /\ [][Next]_allVars

\* the provisioner handler against one account
HandleInit == HandlerInit /\ DeployerIdle /\ LibIdle

HandleNext ==
    \/ HandleStart
    \/ ListOpenIDConnectProviders
    \/ GetOpenIDConnectProvider
    \/ TagExistingProvider
    \/ CreateOpenIDConnectProvider
    \/ TagNewProvider

HandleSpec == HandleInit /\ [][HandleNext]_allVars

\* the core: one Deployer or one Handler at work on an account
CoreInit == Init \/ HandleInit

CoreNext ==
    \/ HandlerIdle /\ Next
    \/ DeployerIdle /\ HandleNext

CoreSpec == CoreInit /\ [][CoreNext]_allVars

\* the steps of a Deploy run under way: each one is a remote call or the
\* compiler invocation returning, or Deploy itself returning
DeploySteps ==
    \/ GetRole
    \/ CreateRole
    \/ PutRolePolicy
    \/ BuildPackage
    \/ GetFunction
    \/ CreateFunction
    \/ UpdateFunctionCode
    \/ UpdateFunctionConfiguration
    \/ AddPermission
    \/ DescribeLogGroups
    \/ CreateLogGroup
    \/ PutRetentionPolicy
    \/ TagLogGroup
    \/ TagResource
    \/ DeployReturn

\* the steps of a Handle call under way: each one is a remote call returning
HandleSteps ==
    \/ ListOpenIDConnectProviders
    \/ GetOpenIDConnectProvider
    \/ TagExistingProvider
    \/ CreateOpenIDConnectProvider
    \/ TagNewProvider

\* the core, a Deployer or a Handler called MaxFairRuns times, when every
\* remote call and the compiler invocation return: a step of a run under way
\* is eventually taken; nothing forces a new run
MaxFairRuns == 1

CoreFairNext == CoreNext /\ runs' <= MaxFairRuns /\ handles' <= MaxFairRuns

CoreFairSpec ==
    /\ CoreInit /\ [][CoreFairNext]_allVars
    /\ WF_allVars(HandlerIdle /\ DeploySteps)
    /\ WF_allVars(DeployerIdle /\ HandleSteps)

\* the package builder
BuilderSpecInit == BuilderInit /\ DeployerIdle /\ HandlerIdle /\ GeneratorIdle /\ ValidatorIdle

BuildNext ==
    \/ BuildStart
    \/ MkdirTemp
    \/ compileBinary
    \/ PackageBinary
    \/ BuildReturn
    \/ ZipFile

BuildSpec == BuilderSpecInit /\ [][BuildNext]_allVars

\* the policy generator, its three functions called in any order
PolicyInit == GeneratorInit /\ DeployerIdle /\ HandlerIdle /\ BuilderIdle /\ ValidatorIdle

PolicyNext ==
    \/ CallTrustPolicy
    \/ CallPermissionsPolicy
    \/ CallResourcePolicy

PolicySpec == PolicyInit /\ [][PolicyNext]_allVars

\* the credentials validator
ValidateInit == ValidatorInit /\ DeployerIdle /\ HandlerIdle /\ GeneratorIdle
                /\ BuilderIdle

ValidateNext ==
    \/ ValidateStart
    \/ GetCallerIdentity
    \/ ValidateRegion

ValidateSpec == ValidateInit /\ [][ValidateNext]_allVars

(***************************************************************************)
(* Properties of Deploy (checked under Spec)                               *)
(***************************************************************************)
Done    == pc = "done"
Success == Done /\ err = "" /\ Len(result) = 1

\* C1: when the function lookup reports not-found and role ensure, build
\* and create succeed, Deploy returns no error and a result with status
\* "created", the non-empty identifier the create call returned, and as
\* checksum the hex SHA-256 digest of the archive Build returned in this
\* run, which is the archive the create call carried.
C1_CreatedResult ==
    (Done /\ Has(calls, "GetFunction", "notfound")
          /\ Has(calls, "CreateFunction", "ok"))
    => /\ Success
       /\ result[1].Status = "created"
       /\ result[1].FunctionARN # ""
       /\ result[1].FunctionARN = function.arn
       /\ Find(calls, "CreateFunction").arg.ZipFile = zipData
       /\ function.code = zipData
       /\ result[1].PackageSize = zipData.size
       /\ result[1].PackageChecksum = Sprintf_x(Sum256(zipData))

\* C1 witness: a retry after a failed run creates the function from an
\* archive with other bytes than the account ever held
C1_Witness ==
    /\ Success /\ prev.ran /\ prev.err # ""
    /\ Has(calls, "GetFunction", "notfound")
    /\ result[1].Status = "created"
    /\ zipData.body = 1

\* C2: when the function lookup finds a function and both update calls
\* succeed, Deploy returns no error and a result with status "updated" and
\* the identifier of the function the lookup found; CreateFunction is not
\* called in a run whose lookup found the function.
C2_UpdatedResult ==
    /\ Has(calls, "GetFunction", "ok") => "CreateFunction" \notin Ops(calls)
    /\ (Done /\ Has(calls, "GetFunction", "ok")
             /\ Has(calls, "UpdateFunctionCode", "ok")
             /\ Has(calls, "UpdateFunctionConfiguration", "ok"))
       => /\ Success
          /\ result[1].Status = "updated"
          /\ result[1].FunctionARN # ""
          /\ result[1].FunctionARN = function.arn

C2_Witness ==
    /\ Success /\ result[1].Status = "updated"
    /\ ~prev.ran
    /\ result[1].FunctionARN = "arn:aws:lambda:2:function:fn"

\* C3: two successive Deploy runs with the same config, neither meeting a
\* failure or another actor, the first starting without the function: both
\* return results, "created" then "updated" with the same function
\* identifier, and the second creates no role, function or log group.
C3_Idempotent ==
    /\ (Done /\ Clean(calls)) => Success
    /\ (Done /\ Clean(calls) /\ Has(calls, "GetFunction", "notfound"))
       => result[1].Status = "created"
    /\ (Done /\ Clean(calls) /\ prev.ran /\ prev.clean
             /\ Len(prev.result) = 1 /\ prev.result[1].Status = "created")
       => /\ result[1].Status = "updated"
          /\ result[1].FunctionARN = prev.result[1].FunctionARN
          /\ Ops(calls) \cap {"CreateRole", "CreateFunction", "CreateLogGroup"} = {}

C3_Witness ==
    /\ Success /\ Clean(calls) /\ prev.ran /\ prev.clean
    /\ Len(prev.result) = 1 /\ prev.result[1].Status = "created"
    /\ result[1].Status = "updated"
    /\ config.CLMServiceRoleARN # "" /\ config.SourceAccountID # ""
    /\ Has(calls, "AddPermission", "conflict")

\* C4: once steps 1-4 have succeeded no outcome of the permission-grant,
\* log-group or tagging calls aborts the run: Deploy returns a result and a
\* nil error.  A conflict from the permission grant prints no warning, any
\* other error of it prints one.
C4_AuxiliaryTolerated ==
    snap.set
    => /\ err = ""
       /\ Done => Success
       /\ Has(calls, "AddPermission", "conflict") /\ ~Has(calls, "AddPermission", "err")
            => "failed to add resource policy" \notin warnings
       /\ Has(calls, "AddPermission", "err")
            => "failed to add resource policy" \in warnings

C4_Witness ==
    /\ Success
    /\ Has(calls, "AddPermission", "err")
    /\ Has(calls, "DescribeLogGroups", "err")
    /\ Has(calls, "CreateLogGroup", "err")
    /\ Has(calls, "TagResource", "err")

\* the outcomes of the calls of steps 1-4 that make the step fail
FatalOutcome(c) ==
    \/ c.op \in {"GetRole", "GetFunction"} /\ c.out # "ok" /\ c.out # "notfound"
    \/ c.op \in {"CreateRole", "PutRolePolicy", "Build", "CreateFunction",
                 "UpdateFunctionCode", "UpdateFunctionConfiguration"}
       /\ c.out # "ok"

\* C5: a failure in steps 1-4 (role lookup other than not-found, role
\* creation, policy attachment, build, function lookup other than
\* not-found, function creation, code update, configuration update) is
\* the last thing the run does: Deploy returns an error and no result.  A
\* not-found from a lookup is no error and is followed by the create call.
C5_FatalSteps ==
    \A i \in 1..Len(calls) :
        /\ FatalOutcome(calls[i])
             => i = Len(calls) /\ Done /\ err # "" /\ result = <<>>
        /\ calls[i].out = "notfound"
             => /\ ~(i = Len(calls) /\ Done)
                /\ i = Len(calls) =>
                     /\ err = ""
                     /\ pc = (IF calls[i].op = "GetRole" THEN "CreateRole"
                              ELSE "CreateFunction")
                /\ i < Len(calls) =>
                     calls[i + 1].op = (IF calls[i].op = "GetRole" THEN "CreateRole"
                                        ELSE "CreateFunction")

C5_Witness ==
    /\ Done /\ err # "" /\ result = <<>>
    /\ Has(calls, "GetRole", "notfound")
    /\ Has(calls, "CreateRole", "ok")
    /\ Has(calls, "PutRolePolicy", "err")
    /\ Len(calls) = 3

\* C6: the result is determined by the config and by what steps 1-4
\* resolved, whatever the permission-grant, log-group and tagging calls
\* did: function identifier, function name, role identifier, the name
\* "/aws/lambda/<function name>", status, package size and checksum.
C6_ResultFromSteps1to4 ==
    (Done /\ Len(result) = 1)
    => /\ snap.set
       /\ result[1] = [FunctionARN     |-> snap.functionARN,
                       FunctionName    |-> config.FunctionName,
                       ExecutionRole   |-> snap.roleARN,
                       LogGroupName    |-> STR_awsLambda \o config.FunctionName,
                       Status          |-> snap.status,
                       PackageSize     |-> snap.zipData.size,
                       PackageChecksum |-> Sprintf_x(Sum256(snap.zipData))]

C6_Witness ==
    /\ Success
    /\ Has(calls, "CreateLogGroup", "err")
    /\ Has(calls, "TagResource", "err")
    /\ Has(calls, "AddPermission", "err")
    /\ prev.ran /\ Len(prev.result) = 1
    /\ prev.result[1] = result[1]
    /\ prev.clean

\* C7: the permission-grant call is attempted exactly in the runs whose
\* steps 1-4 succeeded with both the invoker-role and the source-account
\* identifier configured; with either one empty it is never attempted and
\* the run still returns status created or updated.
C7_PermissionOnlyWhenConfigured ==
    LET both == config.CLMServiceRoleARN # "" /\ config.SourceAccountID # "" IN
    /\ "AddPermission" \in Ops(calls) => snap.set /\ both
    /\ (snap.set /\ both /\ pc # "AddPermission") => "AddPermission" \in Ops(calls)
    /\ (snap.set /\ ~both /\ Done)
       => Success /\ result[1].Status \in {"created", "updated"}

C7_Witness ==
    /\ Success
    /\ config.CLMServiceRoleARN # "" /\ config.SourceAccountID = ""
    /\ "AddPermission" \notin Ops(calls)
    /\ result[1].Status = "created"

(***************************************************************************)
(* Properties of Handle (checked under HandleSpec)                         *)
(***************************************************************************)
\* u and v are the same URL, or one is the other plus one trailing "/"
SameUpToOneSeparator(u, v) ==
    \/ u = v
    \/ u = v \o <<"/">>
    \/ v = u \o <<"/">>

\* u without any of its trailing "/"
RECURSIVE Base(_)
Base(u) == IF TrimSuffix(u, "/") = u THEN u ELSE Base(TrimSuffix(u, "/"))

\* the Handle calls that got past validation, all of whose calls succeeded
AllSucceeded == \A i \in 1..Len(hhist) : hhist[i].clean

\* C8: a sequence of Handle calls, every remote call succeeding, whose
\* issuer URLs are equal up to one trailing separator, starting in an
\* account without a provider for that issuer: the first call returns
\* "created", every later one "already_exists" with the first call's
\* identifier, one create call is issued in all, and the account ends with
\* one provider for the issuer.
C8_CreateIdempotent ==
    (/\ hpc = "done" /\ Len(hhist) >= 2 /\ AllSucceeded
     /\ \A i, j \in 1..Len(hhist) :
            SameUpToOneSeparator(hhist[i].url, hhist[j].url)
     /\ \A s \in hhist[1].before : Base(s) # Base(hhist[1].url))
    => /\ hhist[1].resp[1].Status = "created"
       /\ hhist[1].creates = 1
       /\ \A i \in 2..Len(hhist) :
            /\ hhist[i].resp[1].Status = "already_exists"
            /\ hhist[i].resp[1].OIDCProviderARN = hhist[1].resp[1].OIDCProviderARN
            /\ hhist[i].creates = 0
       /\ Cardinality({ i \in 1..Len(providers) :
                          \E j \in 1..Len(hhist) :
                             SameUpToOneSeparator(providers[i].url, hhist[j].url) }) = 1

\* C9: matching ignores one trailing separator on either side.  A Handle
\* call, every remote call succeeding, in an account that holds a provider
\* whose stored URL equals the request's issuer URL once one trailing "/"
\* is dropped from each (U against U, U against U+"/", U+"/" against U)
\* returns "already_exists" with the identifier of such a provider and
\* makes no create call.
C9_MatchIgnoresOneSeparator ==
    LET last == hhist[Len(hhist)]
        hits == { i \in 1..Len(providers) :
                    /\ providers[i].url \in last.before
                    /\ TrimSuffix(providers[i].url, "/") = TrimSuffix(last.url, "/") }
    IN  (hpc = "done" /\ herr = "" /\ Len(resp) = 1 /\ Len(hhist) > 0
         /\ last.clean /\ hits # {})
        => /\ resp[1].Status = "already_exists"
           /\ \E i \in hits : resp[1].OIDCProviderARN = providers[i].arn
           /\ last.creates = 0

\* C10: in a Handle call for a valid request the value compared with the
\* stored URLs is the request's issuer URL less exactly one trailing
\* separator, and the create call is sent that same value.
C10_OneNormalizedValue ==
    /\ Has(hcalls, "ListOpenIDConnectProviders", "ok")
         => normalizedIssuerURL = TrimSuffix(req.IssuerURL, "/")
    /\ \A i \in 1..Len(hcalls) :
         hcalls[i].op = "CreateOpenIDConnectProvider"
           => hcalls[i].arg.Url = normalizedIssuerURL

\* the validation rules, each stated on its own, in the order of the list:
\* 1 issuer URL present, 2 issuer URL parses, 3 scheme is https, 4 host is
\* not empty, 5 thumbprint present, 6 cluster identifier present
RuleViolated(i, r) ==
    CASE i = 1 -> r.IssuerURL = <<>>
      [] i = 2 -> ParseURL(r.IssuerURL).err # ""
      [] i = 3 -> ParseURL(r.IssuerURL).Scheme # STR_https
      [] i = 4 -> ParseURL(r.IssuerURL).Host = <<>>
      [] i = 5 -> r.Thumbprint = ""
      [] i = 6 -> r.ClusterID = ""

RuleError ==
    << "issuer_url is required", "invalid issuer_url",
       "issuer_url must use https scheme", "issuer_url must have a valid host",
       "thumbprint is required", "cluster_id is required" >>

\* the number of the earliest violated rule, 0 when none is violated
FirstViolated(r) ==
    IF \E i \in 1..6 : RuleViolated(i, r)
      THEN CHOOSE i \in 1..6 : /\ RuleViolated(i, r)
                               /\ \A j \in 1..(i - 1) : ~RuleViolated(j, r)
      ELSE 0

\* the Handle call at hand was rejected by validation
Rejected == hpc = "done" /\ hcalls = <<>> /\ resp = <<>> /\ herr # ""

\* C11: a Handle call whose request violates validation rules returns the
\* error of the earliest violated rule in the order missing issuer URL,
\* unparseable issuer URL, scheme other than https, empty host, missing
\* thumbprint, missing cluster identifier, and makes no remote call; a
\* request violating none is accepted and goes on to the existence search.
C11_FirstViolatedRule ==
    handles > 0
    => LET v == FirstViolated(req) IN
       /\ v > 0 => Rejected /\ herr = RuleError[v]
       /\ v = 0 => ~Rejected /\ (hpc = "List" => herr = "" /\ hcalls = <<>>)

C11_Witness ==
    /\ Rejected
    /\ req.IssuerURL = STR_http \o <<":", "/", "/", "a">>
    /\ req.Thumbprint = "" /\ req.ClusterID = ""
    /\ herr = "issuer_url must use https scheme"

HDone == hpc = "done"
LastCall(cs) == cs[Len(cs)]

\* C12: on the already-exists path (a provider matched, no create call) a
\* failed tag call makes Handle return an error and no response, and a
\* response with status "already_exists" is returned only when the last
\* call was a successful tag call on the provider the response names.
C12_TagFatalOnExisting ==
    /\ (HDone /\ Len(hcalls) > 0
        /\ LastCall(hcalls).op = "TagOpenIDConnectProvider"
        /\ LastCall(hcalls).out = "err"
        /\ "CreateOpenIDConnectProvider" \notin Ops(hcalls))
       => herr # "" /\ resp = <<>>
    /\ (HDone /\ Len(resp) = 1 /\ resp[1].Status = "already_exists")
       => /\ herr = ""
          /\ "CreateOpenIDConnectProvider" \notin Ops(hcalls)
          /\ LastCall(hcalls) =
               Call("TagOpenIDConnectProvider", "ok",
                    TagInput(resp[1].OIDCProviderARN, req.ClusterID))
    /\ hpc = "TagExisting" => resp = <<>> /\ herr = ""

C12_Witness ==
    /\ HDone /\ resp = <<>>
    /\ herr = "failed to tag existing provider"
    /\ Has(hcalls, "GetOpenIDConnectProvider", "ok")
    /\ LastCall(hcalls).op = "TagOpenIDConnectProvider"
    /\ LastCall(hcalls).out = "err"

\* C13: once the create call has succeeded, Handle returns status
\* "created" with the identifier the account gave the new provider and a
\* nil error, whether the tag call after it succeeds or fails; a failed
\* create call is the last call of the run, which returns an error and no
\* response.
C13_TagToleratedOnCreated ==
    \A i \in 1..Len(hcalls) :
        hcalls[i].op = "CreateOpenIDConnectProvider"
        => IF hcalls[i].out = "ok"
             THEN /\ herr = ""
                  /\ HDone =>
                       /\ Len(resp) = 1
                       /\ resp[1].Status = "created"
                       /\ \E k \in 1..Len(providers) :
                            /\ providers[k].url = hcalls[i].arg.Url
                            /\ providers[k].arn = resp[1].OIDCProviderARN
                       /\ LastCall(hcalls).op = "TagOpenIDConnectProvider"
             ELSE /\ i = Len(hcalls) /\ HDone
                  /\ herr # "" /\ resp = <<>>

C13_Witness ==
    /\ HDone /\ herr = "" /\ Len(resp) = 1
    /\ resp[1].Status = "created"
    /\ Has(hcalls, "CreateOpenIDConnectProvider", "ok")
    /\ Has(hcalls, "TagOpenIDConnectProvider", "err")
    /\ "failed to tag provider" \in hwarnings

\* C14: a failed list call is the only call of its run, which returns an
\* error and no response.  A failed fetch of a candidate's detail skips
\* that candidate: Handle has no error because of it, and the next call
\* is the fetch of the next listed candidate, or the create call when the
\* candidate was the last one.
C14_ListFatalGetSkipped ==
    \A i \in 1..Len(hcalls) :
        /\ (hcalls[i].op = "ListOpenIDConnectProviders" /\ hcalls[i].out = "err")
           => Len(hcalls) = 1 /\ HDone /\ herr # "" /\ resp = <<>>
        /\ (hcalls[i].op = "GetOpenIDConnectProvider" /\ hcalls[i].out = "err")
           => LET k == i - 1
                  n == Cardinality({ s \in DOMAIN providers :
                                       providers[s].url \in before })
              IN  /\ hcalls[i].arg.OpenIDConnectProviderArn = providers[k].arn
                  /\ i = Len(hcalls) =>
                       /\ herr = "" /\ resp = <<>>
                       /\ hpc = (IF k < n THEN "Get" ELSE "Create")
                  /\ i < Len(hcalls) =>
                       IF k < n
                         THEN /\ hcalls[i + 1].op = "GetOpenIDConnectProvider"
                              /\ hcalls[i + 1].arg.OpenIDConnectProviderArn
                                   = providers[k + 1].arn
                         ELSE hcalls[i + 1].op = "CreateOpenIDConnectProvider"

C14_Witness ==
    /\ HDone /\ herr = "" /\ Len(resp) = 1
    /\ resp[1].Status = "already_exists"
    /\ Len(hcalls) = 4
    /\ hcalls[2].op = "GetOpenIDConnectProvider" /\ hcalls[2].out = "err"
    /\ hcalls[3].op = "GetOpenIDConnectProvider" /\ hcalls[3].out = "ok"

\* C15: when another actor creates the resource between a run's lookup
\* and its own create call (outcome "raced" of CreateRole, CreateFunction,
\* CreateLogGroup) or has already added the permission grant (outcome
\* "conflict" of AddPermission), the already-exists or conflict error of
\* that call is not what the run returns: the call is not the last call
\* of a run that ends with an error.
C15_RacesRecovered ==
    \A i \in 1..Len(calls) :
        (\/ calls[i].out = "raced"
         \/ calls[i].op = "AddPermission" /\ calls[i].out = "conflict")
        => ~(i = Len(calls) /\ Done /\ err # "")

\* the log-group calls of the run at hand, none of which failed
LogGroupStepClean ==
    \A i \in 1..Len(calls) :
        calls[i].op \in {"DescribeLogGroups", "CreateLogGroup",
                         "PutRetentionPolicy", "TagLogGroup"}
        => calls[i].out # "err"

\* C16: a Deploy run that returns a result and whose log-group calls all
\* succeeded has set the retention of "/aws/lambda/<function name>" to 90
\* days and applied the configured tags to it, both when the listing held
\* the group by exact name and when the run created it.
C16_RetentionAndTagsAlways ==
    (Success /\ LogGroupStepClean)
    => LET name == LogGroupNameOf(config.FunctionName) IN
       /\ "PutRetentionPolicy" \in Ops(calls)
       /\ config.Tags # {} => "TagLogGroup" \in Ops(calls)
       /\ name \in DOMAIN logGroups
       /\ logGroups[name].retention = RetentionInDays
       /\ config.Tags \subseteq logGroups[name].tags

\* the call after calls[i] is op; when calls[i] is the last call so far,
\* op is the call the run is about to make
NextCallIs(i, op) ==
    IF i < Len(calls) THEN calls[i + 1].op = op ELSE pc = op

\* C17: in the log-group step CreateLogGroup is called exactly when the
\* listing did not return a group named "/aws/lambda/<function name>"
\* (a listed group having that name only as a prefix does not count), and
\* an already-exists answer to CreateLogGroup lets the step go on to the
\* retention call.
C17_CreateIffNoExactName ==
    LET name == LogGroupNameOf(config.FunctionName)
        \* the group was in the account when it was listed: it is there
        \* now and this run's create call did not put it there
        wasThere == /\ name \in DOMAIN logGroups
                    /\ ~Has(calls, "CreateLogGroup", "ok")
                    /\ ~Has(calls, "CreateLogGroup", "raced")
    IN  \A i \in 1..Len(calls) :
          /\ calls[i].op = "DescribeLogGroups"
             => /\ calls[i].arg.LogGroupNamePrefix = name
                /\ IF calls[i].out = "ok" /\ wasThere
                     THEN /\ "CreateLogGroup" \notin Ops(calls)
                          /\ pc # "CreateLogGroup"
                     ELSE NextCallIs(i, "CreateLogGroup")
          /\ calls[i].op = "CreateLogGroup"
             => /\ calls[i].arg.LogGroupName = name
                /\ calls[i - 1].op = "DescribeLogGroups"
                /\ calls[i].out \in {"ok", "exists", "raced"}
                     => NextCallIs(i, "PutRetentionPolicy")

C17_Witness ==
    /\ Success
    /\ LogGroupNameOf(SiblingName) \in DOMAIN logGroups
    /\ Has(calls, "DescribeLogGroups", "ok")
    /\ Has(calls, "CreateLogGroup", "ok")
    /\ Has(calls, "PutRetentionPolicy", "ok")
    /\ ~prev.ran

\* C18: in the role step a successful lookup is followed by neither
\* CreateRole nor PutRolePolicy and the found role's identifier is used;
\* a not-found lookup is followed by CreateRole with the trust policy;
\* PutRolePolicy with the permissions policy is called only right after a
\* successful CreateRole, follows every successful CreateRole, and the
\* created role's identifier is used; a failed PutRolePolicy ends the
\* run with an error.
C18_RoleStep ==
    /\ Has(calls, "GetRole", "ok")
       => /\ Ops(calls) \cap {"CreateRole", "PutRolePolicy"} = {}
          /\ roleARN = role.arn /\ roleARN # ""
    /\ \A i \in 1..Len(calls) :
         /\ (calls[i].op = "GetRole" /\ calls[i].out = "notfound")
            => NextCallIs(i, "CreateRole")
         /\ calls[i].op = "CreateRole"
            => /\ calls[i - 1] = Call("GetRole", "notfound",
                                      [RoleName |-> config.ExecutionRoleName])
               /\ calls[i].arg.AssumeRolePolicyDocument = TrustPolicy
               /\ calls[i].arg.RoleName = config.ExecutionRoleName
               /\ IF calls[i].out = "ok"
                    THEN /\ NextCallIs(i, "PutRolePolicy")
                         /\ roleARN = role.arn /\ roleARN # ""
                    ELSE i = Len(calls) /\ Done /\ err # ""
         /\ calls[i].op = "PutRolePolicy"
            => /\ calls[i - 1].op = "CreateRole" /\ calls[i - 1].out = "ok"
               /\ calls[i].arg.PolicyDocument = PermissionsPolicy
               /\ calls[i].arg.RoleName = config.ExecutionRoleName
               /\ role.trust
               /\ calls[i].out = "ok" => role.inline
               /\ calls[i].out # "ok"
                    => i = Len(calls) /\ Done /\ err # "" /\ result = <<>>
    /\ Success => result[1].ExecutionRole = role.arn

C18_Witness ==
    /\ Success
    /\ Has(calls, "GetRole", "notfound")
    /\ Has(calls, "CreateRole", "ok")
    /\ Has(calls, "PutRolePolicy", "ok")
    /\ result[1].ExecutionRole = RoleArn
    /\ prev.ran /\ prev.err = "failed to ensure execution role: failed to check if role exists"

\* C19: on the update path UpdateFunctionCode is called first and
\* UpdateFunctionConfiguration second: the configuration call is made only
\* directly after a successful code call and follows every successful
\* code call; a failed code call ends the run; status "updated" is
\* reported only when both calls succeeded.
C19_CodeThenConfiguration ==
    /\ \A i \in 1..Len(calls) :
         /\ calls[i].op = "UpdateFunctionCode"
            => /\ calls[i - 1].op = "GetFunction" /\ calls[i - 1].out = "ok"
               /\ calls[i].arg.ZipFile = zipData
               /\ IF calls[i].out = "ok"
                    THEN NextCallIs(i, "UpdateFunctionConfiguration")
                    ELSE /\ i = Len(calls) /\ Done /\ err # "" /\ result = <<>>
                         /\ "UpdateFunctionConfiguration" \notin Ops(calls)
         /\ calls[i].op = "UpdateFunctionConfiguration"
            => /\ calls[i - 1].op = "UpdateFunctionCode" /\ calls[i - 1].out = "ok"
               /\ calls[i].out # "ok"
                    => i = Len(calls) /\ Done /\ err # "" /\ result = <<>>
    /\ (status = "updated" \/ (Len(result) = 1 /\ result[1].Status = "updated"))
       => /\ Has(calls, "UpdateFunctionCode", "ok")
          /\ Has(calls, "UpdateFunctionConfiguration", "ok")
          /\ function.code = zipData

C19_Witness ==
    /\ Done /\ err = "failed to update function: failed to update function configuration"
    /\ result = <<>>
    /\ Has(calls, "UpdateFunctionCode", "ok")
    /\ function.code = zipData /\ zipData.body = 1
    /\ prev.ran /\ Len(prev.result) = 1 /\ prev.result[1].Status = "updated"

\* the error Deploy returns when the call op is what failed
FatalError(op) ==
    CASE op = "GetRole" ->
           "failed to ensure execution role: failed to check if role exists"
      [] op = "CreateRole" ->
           "failed to ensure execution role: failed to create role"
      [] op = "PutRolePolicy" ->
           "failed to ensure execution role: failed to attach permissions policy"
      [] op = "Build" -> "failed to build Lambda package"
      [] op = "GetFunction" -> "failed to check if function exists"
      [] op = "CreateFunction" -> "failed to create function"
      [] op = "UpdateFunctionCode" ->
           "failed to update function: failed to update function code"
      [] op = "UpdateFunctionConfiguration" ->
           "failed to update function: failed to update function configuration"
      [] OTHER -> ""

\* the error Handle returns when the call op is what failed
HFatalError(op, cs) ==
    CASE op = "ListOpenIDConnectProviders" -> "failed to check if provider exists"
      [] op = "CreateOpenIDConnectProvider" -> "failed to create OIDC provider"
      [] op = "TagOpenIDConnectProvider"
         /\ "CreateOpenIDConnectProvider" \notin Ops(cs) ->
           "failed to tag existing provider"
      [] OTHER -> ""

\* C20: a finished Deploy call has either a complete result and a nil
\* error or an error and no result, and so has a finished Handle call.
\* A returned error is that of the one fatal call that failed, which is
\* the run's last call (or, for Handle, of validation, before any call);
\* failures of the tolerated calls are never the returned error.
C20_ResultOrError ==
    /\ (Done /\ runs > 0)
       => /\ (err = "") # (result = <<>>)
          /\ Len(result) <= 1
          /\ err = ""
               => /\ result[1].FunctionARN # "" /\ result[1].ExecutionRole # ""
                  /\ result[1].FunctionName = config.FunctionName
                  /\ result[1].LogGroupName # <<>>
                  /\ result[1].Status \in {"created", "updated"}
                  /\ result[1].PackageSize > 0
                  /\ result[1].PackageChecksum # <<>>
          /\ err # ""
               => /\ Len(calls) > 0
                  /\ FatalOutcome(LastCall(calls))
                  /\ err = FatalError(LastCall(calls).op)
                  /\ \A i \in 1..(Len(calls) - 1) : ~FatalOutcome(calls[i])
    /\ (HDone /\ handles > 0)
       => /\ (herr = "") # (resp = <<>>)
          /\ Len(resp) <= 1
          /\ herr = ""
               => /\ resp[1].OIDCProviderARN # <<>>
                  /\ resp[1].Status \in {"created", "already_exists"}
          /\ herr # ""
               => IF hcalls = <<>>
                    THEN herr = RuleError[FirstViolated(req)]
                    ELSE /\ LastCall(hcalls).out # "ok"
                         /\ herr = HFatalError(LastCall(hcalls).op, hcalls)
                         /\ herr # ""

\* a Deploy run that failed twice in tolerated calls and returned a result
C20_Witness ==
    /\ Success /\ runs > 0
    /\ Has(calls, "CreateLogGroup", "err")
    /\ Has(calls, "TagResource", "err")

\* C21: every create call of Handle carries a thumbprint list of exactly
\* one element, the request's thumbprint, and as client-identifier list
\* the request's list when it is not empty, else "openshift" and
\* "sts.amazonaws.com".
C21_CreateInput ==
    \A i \in 1..Len(hcalls) :
        hcalls[i].op = "CreateOpenIDConnectProvider"
        => /\ Len(hcalls[i].arg.ThumbprintList) = 1
           /\ hcalls[i].arg.ThumbprintList[1] = req.Thumbprint
           /\ req.Thumbprint # ""
           /\ req.ClientIDs # <<>> => hcalls[i].arg.ClientIDList = req.ClientIDs
           /\ req.ClientIDs = <<>>
                => hcalls[i].arg.ClientIDList = <<"openshift", "sts.amazonaws.com">>

C21_Witness ==
    /\ HDone /\ Len(resp) = 1 /\ resp[1].Status = "created"
    /\ req.ClientIDs = <<"custom-client">>
    /\ \E i \in 1..Len(hcalls) :
          /\ hcalls[i].op = "CreateOpenIDConnectProvider"
          /\ hcalls[i].arg.ClientIDList = <<"custom-client">>

\* C22: the resource-policy generator returns no document and the error
\* "CLM service role ARN is required" when the invoker role is empty, no
\* document and "source account ID is required" when the role is given and the
\* account is empty, and for two non-empty arguments no error and a document of
\* one Allow statement whose principal is the given role and whose condition
\* maps aws:SourceAccount, and nothing else, to the given account.
C22_ResourcePolicy ==
    generator = "GenerateLambdaResourcePolicy"
    => LET r == gargs.clmServiceRoleARN
           a == gargs.sourceAccountID
       IN  /\ r = ""
                => gout = [policy |-> <<>>, err |-> "CLM service role ARN is required"]
           /\ r # "" /\ a = ""
                => gout = [policy |-> <<>>, err |-> "source account ID is required"]
           /\ r # "" /\ a # ""
                => /\ gout.err = ""
                   /\ Len(gout.policy) = 1
                   /\ Len(gout.policy[1].Statement) = 1
                   /\ LET st == gout.policy[1].Statement[1] IN
                        /\ st.Effect = "Allow"
                        /\ st.Principal = [AWS |-> r]
                        /\ DOMAIN st.Condition = {"StringEquals"}
                        /\ DOMAIN st.Condition.StringEquals = {"aws:SourceAccount"}
                        /\ st.Condition.StringEquals["aws:SourceAccount"] = a

C22_Witness ==
    /\ generator = "GenerateLambdaResourcePolicy"
    /\ gargs = [clmServiceRoleARN |-> "", sourceAccountID |-> ""]
    /\ gout.err = "CLM service role ARN is required"

FunctionOps == {"GetFunction", "CreateFunction", "UpdateFunctionCode",
                "UpdateFunctionConfiguration"}

\* C23: when compileBinary fails, Build returns an error, no archive bytes and
\* no checksum, and the Deploy run that called it makes no GetFunction,
\* CreateFunction, UpdateFunctionCode or UpdateFunctionConfiguration call and
\* ends with the build error.
C23_CompileFailure ==
    \A i \in 1..Len(calls) :
        calls[i].op = "Build" /\ ~calls[i].arg.compiled
        => /\ calls[i].out = "err"
           /\ zipData = NoArchive
           /\ checksum = <<>>
           /\ \A j \in 1..Len(calls) : calls[j].op \notin FunctionOps
           /\ pc = "done"
           /\ result = <<>>
           /\ err = "failed to build Lambda package"

C23_Witness ==
    /\ pc = "done"
    /\ calls # <<>>
    /\ LastCall(calls).op = "Build"
    /\ ~LastCall(calls).arg.compiled
    /\ function.exists

\* a call of Build has reached its return statement
BuildReturned == bop = "Build" /\ bpc \in {"return", "done"}

\* C24: Build returns the size error exactly when createZipPackage produced an
\* archive of more than maxPackageSize = 52,428,800 bytes, and then returns no
\* bytes and no checksum; an archive of at most that size, the exact maximum
\* included, is returned with its checksum and no error.
C24_SizeLimit ==
    BuildReturned
    => /\ ret.err = "package size exceeds maximum"
            <=> (zipBuf # NoZip /\ zipBuf.size > 52428800)
       /\ ret.err = "package size exceeds maximum"
            => ret.zipData = NoZip /\ ret.hash = <<>>
       /\ zipBuf # NoZip /\ zipBuf.size <= 52428800
            => ret.err = "" /\ ret.zipData = zipBuf /\ ret.hash # <<>>

C24_Witness ==
    /\ bop = "Build" /\ bpc = "done"
    /\ zipBuf.size = 52428800
    /\ ret.err = ""
    /\ ret.zipData = zipBuf

\* the archive has exactly one entry, named bootstrap, with an executable bit
OneExecutableEntry(z) ==
    /\ Len(z.entries) = 1
    /\ z.entries[1].Name = "bootstrap"
    /\ Executable(z.entries[1].Mode)

\* C25: the archive a successful Build returns, and any archive
\* createZipPackage makes of a file whatever that file's name and permission
\* bits on disk, has exactly one entry, named "bootstrap", whose mode has an
\* executable bit set.
C25_OneEntry ==
    /\ BuildReturned /\ ret.err = "" => ret.zipData = zipBuf
    /\ bpc \in {"return", "done"} /\ ret.err = "" => OneExecutableEntry(ret.zipData)
    /\ zipBuf # NoZip => OneExecutableEntry(zipBuf)

C25_Witness ==
    /\ bop = "Build" /\ bpc = "done"
    /\ ret.err = ""
    /\ ret.zipData.entries =
          << [Name |-> "bootstrap", Mode |-> 493, Method |-> "Deflate"] >>

\* C26: once Build has returned, the temporary directory it created does not
\* exist any more, nor does the binary in it, whether Build returned an
\* archive, a compilation error, a packaging error or a size error.
C26_TempDirRemoved ==
    bop = "Build" /\ bpc = "done"
    => /\ tmpDir \notin tmp
       /\ ~binary.exists

C26_Witness ==
    /\ bop = "Build" /\ bpc = "done"
    /\ tmpDir # ""
    /\ ret.err = "failed to create zip package"
    /\ tmpDir \notin tmp

\* the regions the documentation lists as supported
ListedRegions ==
    {"us-east-1", "us-east-2", "us-west-1", "us-west-2",
     "eu-west-1", "eu-west-2", "eu-west-3", "eu-central-1", "eu-north-1",
     "ap-southeast-1", "ap-southeast-2", "ap-northeast-1", "ap-northeast-2",
     "ap-south-1", "sa-east-1", "ca-central-1"}

\* C27: when Validate has returned, Valid is true exactly when the identity
\* call succeeded and the region is non-empty and one of the supported regions,
\* and then the result carries the account and caller identifiers of the
\* identity output and the configured region; the returned error is non-nil
\* exactly when Valid is false; and the failure reported is the first that
\* applies of: identity call failed, region empty, region unsupported.
C27_Validate ==
    vpc = "done"
    => LET idOk == idErr = <<>> IN
       /\ validation.Valid <=> (idOk /\ region # "" /\ region \in ListedRegions)
       /\ validation.Valid
            => /\ validation.AccountID =
                    (IF identity.Account = <<>> THEN "" ELSE identity.Account[1])
               /\ validation.UserARN =
                    (IF identity.Arn = <<>> THEN "" ELSE identity.Arn[1])
               /\ validation.Region = region
       /\ verr # <<>> <=> ~validation.Valid
       /\ ~idOk => verr = idErr
       /\ idOk /\ region = "" => verr = <<"region not configured">>
       /\ idOk /\ region # "" /\ region \notin ListedRegions
            => verr = <<"unsupported region: ", region>>

C27_Witness ==
    /\ vpc = "done"
    /\ idErr = <<"invalid credentials">>
    /\ region = "xyz"
    /\ ~validation.Valid
    /\ verr = idErr

\* the step of Deploy that issues the call op
StepOf(op) ==
    CASE op \in {"GetRole", "CreateRole", "PutRolePolicy"} -> 1
      [] op = "Build" -> 2
      [] op = "GetFunction" -> 3
      [] op \in {"CreateFunction", "UpdateFunctionCode",
                 "UpdateFunctionConfiguration"} -> 4
      [] op = "AddPermission" -> 5
      [] op \in {"DescribeLogGroups", "CreateLogGroup", "PutRetentionPolicy",
                 "TagLogGroup"} -> 6
      [] op = "TagResource" -> 7

\* the step Deploy is at
StepAt(p) ==
    CASE p \in {"GetRole", "CreateRole", "PutRolePolicy"} -> 1
      [] p = "Build" -> 2
      [] p = "GetFunction" -> 3
      [] p \in {"CreateFunction", "UpdateFunctionCode",
                "UpdateFunctionConfiguration"} -> 4
      [] p = "AddPermission" -> 5
      [] p \in {"DescribeLogGroups", "CreateLogGroup", "PutRetentionPolicy",
                "TagLogGroup"} -> 6
      [] p = "TagResource" -> 7
      [] OTHER -> 8

\* C28: within one Deploy run the calls are issued in the order of the steps
\* role ensure, package build, function lookup, function create-or-update,
\* permission grant, log-group ensure, function tagging: a call of a step is
\* never followed by a call of an earlier step, no call is issued twice, a
\* call of steps 2-4 directly follows a successful call of the step before or
\* of its own step, a call of steps 5-7 is only made after step 4 succeeded,
\* and the run is never at a step earlier than its last call.
C28_FixedOrder ==
    /\ \A i, j \in 1..Len(calls) :
         /\ i < j => StepOf(calls[i].op) <= StepOf(calls[j].op)
         /\ i # j => calls[i].op # calls[j].op
    /\ \A i \in 1..Len(calls) :
         LET k == StepOf(calls[i].op) IN
         /\ i = 1 <=> calls[i].op = "GetRole"
         /\ (i > 1 /\ k <= 4)
              => /\ StepOf(calls[i - 1].op) \in {k - 1, k}
                 /\ calls[i - 1].out \in {"ok", "notfound"}
         /\ k >= 5 => snap.set
    /\ calls # <<>> => StepAt(pc) >= StepOf(LastCall(calls).op)

C28_Witness ==
    /\ Success
    /\ Has(calls, "CreateRole", "ok")
    /\ Has(calls, "UpdateFunctionConfiguration", "ok")
    /\ Has(calls, "AddPermission", "ok")
    /\ Has(calls, "CreateLogGroup", "ok")
    /\ Has(calls, "TagResource", "ok")

\* C29: every CreateFunction and every UpdateFunctionConfiguration call
\* carries the role identifier that GetRole or CreateRole returned in the
\* same run, which is the identifier of the account's role, together with
\* the handler name "bootstrap"; and a returned result reports that same
\* identifier as its execution role.
C29_RoleFromStepOne ==
    /\ \A i \in 1..Len(calls) :
         calls[i].op \in {"CreateFunction", "UpdateFunctionConfiguration"}
         => /\ Has(calls, "GetRole", "ok") \/ Has(calls, "CreateRole", "ok")
            /\ role.exists
            /\ calls[i].arg.Role = role.arn
            /\ calls[i].arg.Role # ""
            /\ calls[i].arg.Handler = "bootstrap"
    /\ Success
       => /\ result[1].ExecutionRole = role.arn
          /\ \E i \in 1..Len(calls) :
               /\ calls[i].op \in {"CreateFunction", "UpdateFunctionConfiguration"}
               /\ calls[i].out = "ok"
               /\ calls[i].arg.Role = result[1].ExecutionRole
          /\ function.role = result[1].ExecutionRole
          /\ function.handler = "bootstrap"

C29_Witness ==
    /\ Success
    /\ Has(calls, "CreateRole", "ok")
    /\ Has(calls, "UpdateFunctionConfiguration", "ok")
    /\ result[1].ExecutionRole = "arn:aws:iam::role/exec"
    /\ result[1].Status = "updated"

\* C30: TagResource is called exactly in the runs whose steps 1-4 succeeded
\* with a non-empty tag mapping configured; the call names the function
\* identifier step 4 resolved and the configured tags; and when it fails
\* Deploy still returns a nil error and the result that steps 1-4 determine.
C30_FunctionTagging ==
    /\ \A i \in 1..Len(calls) :
         calls[i].op = "TagResource"
         => /\ snap.set
            /\ config.Tags # {}
            /\ calls[i].arg.Resource = snap.functionARN
            /\ calls[i].arg.Resource = function.arn
            /\ calls[i].arg.Tags = config.Tags
    /\ (Done /\ snap.set /\ config.Tags # {}) => "TagResource" \in Ops(calls)
    /\ Has(calls, "TagResource", "err")
       => /\ err = ""
          /\ Done
               => /\ Len(result) = 1
                  /\ result[1] = [FunctionARN     |-> snap.functionARN,
                                  FunctionName    |-> config.FunctionName,
                                  ExecutionRole   |-> snap.roleARN,
                                  LogGroupName    |-> STR_awsLambda \o config.FunctionName,
                                  Status          |-> snap.status,
                                  PackageSize     |-> snap.zipData.size,
                                  PackageChecksum |-> Sprintf_x(Sum256(snap.zipData))]

C30_Witness ==
    /\ Success
    /\ Has(calls, "TagResource", "err")
    /\ function.tags = {}
    /\ result[1].Status = "created"

\* C31: every permission grant that Deploy sends to the function names the
\* configured invoker role as its principal and is conditioned on the source
\* account being the configured source account, as the statement of the
\* generated resource policy is.  (A string built by concatenation is the
\* sequence of its pieces.)
C31_GrantIsGeneratedPolicy ==
    \A i \in 1..Len(calls) :
        calls[i].op = "AddPermission"
        => LET st == GenerateLambdaResourcePolicy(config.CLMServiceRoleARN,
                         config.SourceAccountID).policy[1].Statement[1]
           IN  /\ calls[i].arg.Principal = <<st.Principal.AWS>>
               /\ "SourceAccount" \in DOMAIN calls[i].arg
               /\ calls[i].arg.SourceAccount
                    = st.Condition.StringEquals["aws:SourceAccount"]

\* the grants on the function under the fixed statement id
CLMGrants == { p \in function.perms : p.StatementId = "AllowCLMInvoke" }

\* C32: once a Deploy run with both the invoker role and the source account
\* configured has made its permission-grant call without an error other than
\* a conflict, the function carries exactly one statement with the fixed
\* statement id and that statement holds the currently configured values,
\* also when the function carried a statement with other values before.
C32_GrantReplaced ==
    (Has(calls, "AddPermission", "ok") \/ Has(calls, "AddPermission", "conflict"))
    => CLMGrants = {[StatementId |-> "AllowCLMInvoke",
                     Action      |-> "lambda:InvokeFunction",
                     Principal   |-> <<"arn:aws:iam::", config.SourceAccountID, ":root">>,
                     SourceArn   |-> config.CLMServiceRoleARN]}

\* the positions of the listed providers whose stored URL matches the
\* normalized request URL
MatchingPositions ==
    { i \in 1..Len(providers) : Matches(providers[i].url, normalizedIssuerURL) }

\* C33 as stated: when the search has found a provider, it is the first
\* listed provider whose stored URL matches, and the detail fetches made are
\* those for the providers up to it.
C33_FirstStoredMatch ==
    hpc = "TagExisting"
    => \E k \in MatchingPositions :
         /\ \A i \in MatchingPositions : k <= i
         /\ providerARN = providers[k].arn
         /\ Len(hcalls) = k + 1

\* C33, amended: when the search has found a provider, the detail fetches
\* made are those for the first k listed providers in list order, the k-th
\* fetch succeeded and its provider's stored URL matches, no earlier provider
\* both was fetched successfully and matches, and the k-th provider's
\* identifier is the one found; an "already_exists" response names it and the
\* tag call targets it.
C33_FirstFetchedMatch ==
    /\ hpc = "TagExisting"
       => LET k == Len(hcalls) - 1 IN
          /\ k \in 1..Len(providers)
          /\ hcalls[1].op = "ListOpenIDConnectProviders"
          /\ \A j \in 1..k :
               /\ hcalls[j + 1].op = "GetOpenIDConnectProvider"
               /\ hcalls[j + 1].arg.OpenIDConnectProviderArn = providers[j].arn
               /\ j < k => ~(hcalls[j + 1].out = "ok" /\ j \in MatchingPositions)
          /\ hcalls[k + 1].out = "ok"
          /\ k \in MatchingPositions
          /\ providerARN = providers[k].arn
    /\ (HDone /\ Len(resp) = 1 /\ resp[1].Status = "already_exists")
       => /\ resp[1].OIDCProviderARN = providerARN
          /\ LastCall(hcalls).op = "TagOpenIDConnectProvider"
          /\ LastCall(hcalls).arg.OpenIDConnectProviderArn = providerARN
          /\ hcalls[Len(hcalls) - 1].op = "GetOpenIDConnectProvider"
          /\ hcalls[Len(hcalls) - 1].out = "ok"
          /\ hcalls[Len(hcalls) - 1].arg.OpenIDConnectProviderArn = providerARN

C33_Witness ==
    /\ hpc = "TagExisting"
    /\ Cardinality(MatchingPositions) = 2
    /\ Len(hcalls) = 2
    /\ providerARN = providers[1].arn
    /\ MatchingPositions = {1, 2}

\* the number of calls of op in the log cs
Count(cs, op) == Cardinality({ i \in 1..Len(cs) : cs[i].op = op })

\* no call is made twice in a Deploy run; a Handle call makes at most one
\* list call, one detail fetch per listed provider, each for another
\* provider, one create call and one tag call
NoRetry ==
    /\ \A i, j \in 1..Len(calls) : i # j => calls[i].op # calls[j].op
    /\ Count(hcalls, "ListOpenIDConnectProviders") <= 1
    /\ Count(hcalls, "CreateOpenIDConnectProvider") <= 1
    /\ Count(hcalls, "TagOpenIDConnectProvider") <= 1
    /\ Count(hcalls, "GetOpenIDConnectProvider")
         <= Len(providers) - Count(hcalls, "CreateOpenIDConnectProvider")
              * (IF Has(hcalls, "CreateOpenIDConnectProvider", "ok") THEN 1 ELSE 0)
    /\ \A i, j \in 1..Len(hcalls) :
         (i # j /\ hcalls[i].op = "GetOpenIDConnectProvider"
                /\ hcalls[j].op = "GetOpenIDConnectProvider")
         => hcalls[i].arg # hcalls[j].arg

\* a finished run returned either a result and no error, or an error and no
\* result, and an error only together with a failed last call or no call
EndsOneWay ==
    /\ Done => \/ Len(result) = 1 /\ err = ""
               \/ /\ result = <<>> /\ err # ""
                  /\ LastCall(calls).out \notin {"ok", "notfound", "conflict"}
    /\ HDone => \/ Len(resp) = 1 /\ herr = ""
                \/ /\ resp = <<>> /\ herr # ""
                   /\ hcalls # <<>> => LastCall(hcalls).out # "ok"

\* C34: when every remote call and the compiler invocation return, a Deploy
\* run that has started eventually ends, with a result or with the error of
\* a failed call, and a Handle call that has started eventually ends; on the
\* way no Deploy call is made twice and Handle makes at most one list call,
\* one detail fetch per listed provider, one create call and one tag call.
C34_Terminates ==
    /\ [](NoRetry /\ EndsOneWay)
    /\ (pc \notin {"idle", "done"}) ~> Done
    /\ (hpc \notin {"idle", "done"}) ~> HDone

C34_Witness ==
    /\ Done /\ Len(result) = 1
    /\ Len(calls) = 11
    /\ Has(calls, "TagResource", "err")


\* C35: in an account where only Deploy ever created the execution role,
\* after any sequence of Deploy runs a run that returns a result leaves the
\* role named in the result with the inline permissions policy attached.
C35_ResultRoleHasPolicy ==
    (Success /\ role.by = "Deploy")
    => /\ role.exists
       /\ role.arn = result[1].ExecutionRole
       /\ role.inline


\* two URLs that are equal once each is stripped of one trailing separator
EqualUpToSeparator(a, b) == TrimSuffix(a, "/") = TrimSuffix(b, "/")

\* C36: Handle issues a create call only when no provider of the account has
\* a stored URL equal, up to one trailing separator, to the request's issuer
\* URL, whatever the outcomes of the detail fetches.
C36_CreateOnlyWhenAbsent ==
    (\E i \in 1..Len(hcalls) : hcalls[i].op = "CreateOpenIDConnectProvider")
    => \A u \in before : ~EqualUpToSeparator(u, req.IssuerURL)


\* C37: a Handle call whose request fails validation returns at once with
\* the validation error and no response: it makes no list, detail-fetch,
\* create or tag call and leaves the account's providers and their tags as
\* they were.
C37_RejectedNoEffect ==
    /\ [][(handles' = handles + 1 /\ FirstViolated(req') > 0)
          => /\ hpc' = "done" /\ resp' = <<>> /\ herr' # ""
             /\ hcalls' = <<>>
             /\ providers' = providers]_allVars
    /\ []((handles > 0 /\ FirstViolated(req) > 0) => HDone /\ hcalls = <<>>)

C37_Witness ==
    /\ Rejected /\ handles = 2
    /\ FirstViolated(req) = 6
    /\ Len(hhist) = 1 /\ hhist[1].creates = 1
    /\ Len(providers) = 1 /\ providers[1].tags # {}


\* the positions of the tag calls in the call log of the Handle call at hand
TagCalls == { i \in 1..Len(hcalls) : hcalls[i].op = "TagOpenIDConnectProvider" }

\* C38: Handle makes at most one tag call per invocation; the call targets
\* the provider that was found or just created, which is the one a returned
\* response names, and carries exactly the two tags rosa:component =
\* oidc-provider and rosa:cluster-id = the request's cluster identifier.
C38_OneTagCallOnReturnedProvider ==
    /\ Cardinality(TagCalls) <= 1
    /\ \A i \in TagCalls :
         /\ hcalls[i].arg.OpenIDConnectProviderArn = providerARN
         /\ providerARN # <<>>
         /\ hcalls[i].arg.Tags = {<<"rosa:component", "oidc-provider">>,
                                  <<"rosa:cluster-id", req.ClusterID>>}
         /\ Cardinality(hcalls[i].arg.Tags) = 2
         /\ (HDone /\ Len(resp) = 1)
              => resp[1].OIDCProviderARN = hcalls[i].arg.OpenIDConnectProviderArn
    /\ (HDone /\ Len(resp) = 1) => Cardinality(TagCalls) = 1

C38_Witness ==
    /\ HDone /\ Len(resp) = 1 /\ resp[1].Status = "created"
    /\ Len(providers) = 2
    /\ resp[1].OIDCProviderARN = providers[2].arn
    /\ Has(hcalls, "TagOpenIDConnectProvider", "ok")
    /\ providers[2].tags = {<<"rosa:component", "oidc-provider">>,
                            <<"rosa:cluster-id", "cluster-1">>}
    /\ providers[1].tags = {}


\* the lines setup-account prints for the Deploy run at hand
Printed(text) ==
    LET lines == runSetupAccount(result, err, config.CLMServiceRoleARN,
                                 config.SourceAccountID)
    IN  \E i \in 1..Len(lines) : lines[i].text = text

\* C39: after a Deploy run that setup-account started (its config always
\* carries tags) and that returned a result, the command prints that the
\* execution role was created only if this run created it, that the log
\* group was created only if this run created it, and that the resource
\* policy was configured only if the permission grant was registered or was
\* there already.
C39_TruthfulLines ==
    (Success /\ config.Tags # {})
    => /\ Printed("IAM execution role created") => Has(calls, "CreateRole", "ok")
       /\ Printed("CloudWatch Log Group created")
            => Has(calls, "CreateLogGroup", "ok")
       /\ Printed("Resource policy configured for CLM invocation")
            => \/ Has(calls, "AddPermission", "ok")
               \/ Has(calls, "AddPermission", "conflict")

====
